---- MODULE Spec2Model ----
(***************************************************************************)
(* Evidence-resolution pipeline of citation-audit-rewrites.                *)
(*                                                                         *)
(*   Spec       the ledger files on disk under whole runs of               *)
(*              scripts/50_adjudicate.py and scripts/52_propose_rewrites.py *)
(*   SpecMerge  the in-memory frame of 50_adjudicate.py under successive   *)
(*              merge-fill passes                                          *)
(*   SpecNorm      normalize_lead_surname applied once and again           *)
(*   SpecResolve   build_pdf_index and resolve_source_pdf                  *)
(*   SpecYear      infer_year_for_target_author and resolve_pdf_path's year*)
(*   SpecChunk     chunk_pages_to_windows on a page map                    *)
(*   SpecRetrieve  scripts/40_retrieve_candidates.py, one registry row a step*)
(*   SpecOffsets   runs of scripts/30_infer_page_offsets.py                *)
(*   SpecSection   best_section_for_claim                                  *)
(*   SpecCite      parse_citations on a sentence                           *)
(*   SpecSplit     pdf_to_text_with_page_markers's text and split_pages    *)
(*   SpecTie       build_pdf_index and _tie_break on relisted directories  *)
(***************************************************************************)
EXTENDS Integers, Sequences, FiniteSets, TLC

VARIABLES
    enriched,   \* outputs/ccp_registry_enriched.csv (the scaffold input)
    legacy,     \* outputs/adjudications.csv (the external decision source)
    ledger,     \* outputs/adjudications_with_rewrites.csv, or Absent
    unmatched,  \* outputs/.staging/legacy_unmatched_after_merge.csv, or Absent
    counts,     \* per-field blank -> non-blank counts of the last merge_fill
    status,     \* how the last run (or pass) ended
    left,       \* the working frame of 50_adjudicate.main
    prev,       \* the working frame before the last pass
    right,      \* the source frame of the last pass
    phase,      \* position of 50_adjudicate in SpecMerge
    author_name,   \* the argument of normalize_lead_surname
    author_key,    \* normalize_lead_surname(author_name)
    author_rekey,  \* normalize_lead_surname(author_key)
    pdf_dir,    \* the file names in the directory of source PDFs
    pdf_index,  \* build_pdf_index(pdf_dir)
    query,      \* the author, year and citation_text to resolve
    result,     \* the ResolveResult
    pc,         \* position in SpecNorm and SpecResolve
    cite,       \* a claim row: citation_author, citation_text, citation_year
    inferred,   \* infer_year_for_target_author of the row
    want_year,  \* the year resolve_pdf_path matches on
    year_pc,    \* position in SpecYear
    pages,      \* page number -> the whitespace tokens of the page's text
    chunk_cfg,  \* chunk_words, stride and cross_page of a chunking call
    chunks,     \* chunk_pages_to_windows of the pages
    chunk_pc,   \* position in SpecChunk
    registry,   \* outputs/ccp_registry_enriched.csv: the claim rows, or Absent
    text_dir,   \* source_pdf_path -> the extracted text of the source
    offsets_file, \* outputs/page_offsets.csv: its rows, or Absent
    scores,     \* window -> fuzz.token_set_ratio of the claim text and the window
    offsets,    \* the dict main reads from the offsets file
    out_lines,  \* outputs/adjudication_inputs.jsonl: the payloads written
    row_no,     \* the number of registry rows main has gone through
    retr_pc,    \* position in 40_retrieve_candidates.main
    reg_df,     \* df: the registry 30_infer_page_offsets.main reads, or Absent
    page_offsets, \* outputs/page_offsets.csv as 30_infer_page_offsets leaves it
    rows_out,   \* rows_out of the last run of 30_infer_page_offsets.main
    offs_pc,    \* position in SpecOffsets
    sections,   \* the sections of a review: title, body and level
    claim_toks, \* tokens(claim_text)
    body_sim,   \* body -> cosine of the claim vector and the body's vector
    best_sec,   \* best: what best_section_for_claim returns
    sect_pc,    \* position in SpecSection
    sentence,   \* the sentence given to parse_citations, as its segments
    citations,  \* what parse_citations returns
    cite_pc,    \* position in SpecCite
    page_texts, \* the extracted text of each page of a PDF, page 1 first
    marked,     \* the text with page markers written for them
    split_out,  \* split_pages(marked): the pages, or that it raised
    split_pc,   \* position in SpecSplit
    glob_order, \* the files of the PDF directory in the order glob yields them
    tie_first,  \* the first listing, and key -> the file chosen under it
    tie_last,   \* key -> the file chosen under the last listing
    tie_pc      \* position in SpecTie

ledgerVars == <<enriched, legacy, ledger, unmatched, counts, status, left, prev, right, phase>>
mapVars == <<author_name, author_key, author_rekey, pdf_dir, pdf_index, query, result, pc>>
yearVars == <<cite, inferred, want_year, year_pc>>
chunkVars == <<pages, chunk_cfg, chunks, chunk_pc>>
retrVars == <<registry, text_dir, offsets_file, scores, offsets, out_lines, row_no, retr_pc>>
offsVars == <<reg_df, page_offsets, rows_out, offs_pc>>
sectVars == <<sections, claim_toks, body_sim, best_sec, sect_pc>>
citeVars == <<sentence, citations, cite_pc>>
splitVars == <<page_texts, marked, split_out, split_pc>>
tieVars == <<glob_order, tie_first, tie_last, tie_pc>>
textVars == <<citeVars, splitVars, tieVars>>
moreVars == <<offsVars, sectVars, textVars>>
coreVars == <<ledgerVars, mapVars, yearVars, chunkVars, retrVars, offsVars, sectVars>>
restVars == <<yearVars, chunkVars, retrVars, moreVars>>
vars == <<ledgerVars, mapVars, restVars>>

\* the values of the variables a specification does not use
NoCite == [citation_author |-> <<>>, citation_text |-> <<>>, citation_year |-> <<>>,
           parts |-> <<>>]
YearIdle == cite = NoCite /\ inferred = <<>> /\ want_year = <<>> /\ year_pc = "idle"
NoPages == <<>>
NoChunkCfg == [chunk_words |-> 1, stride |-> 1, cross_page |-> FALSE]
ChunkIdle == pages = NoPages /\ chunk_cfg = NoChunkCfg /\ chunks = <<>> /\ chunk_pc = "idle"
NoFile == [exists |-> FALSE, rows |-> <<>>]
RetrIdle ==
    /\ registry = NoFile /\ text_dir = <<>> /\ offsets_file = NoFile /\ scores = <<>>
    /\ offsets = <<>> /\ out_lines = <<>> /\ row_no = 0 /\ retr_pc = "idle"
OffsIdle == reg_df = NoFile /\ page_offsets = NoFile /\ rows_out = <<>> /\ offs_pc = "idle"
NoBest == [title |-> "unknown", level |-> 0, idx |-> 0]
SectIdle ==
    /\ sections = <<>> /\ claim_toks = {} /\ body_sim = <<>> /\ best_sec = NoBest
    /\ sect_pc = "idle"
CiteIdle == sentence = <<>> /\ citations = <<>> /\ cite_pc = "idle"
SplitIdle == page_texts = <<>> /\ marked = <<>> /\ split_out = <<>> /\ split_pc = "idle"
TieIdle == glob_order = <<>> /\ tie_first = <<>> /\ tie_last = <<>> /\ tie_pc = "idle"
TextIdle == CiteIdle /\ SplitIdle /\ TieIdle
MoreIdle == OffsIdle /\ SectIdle /\ TextIdle
RestIdle == YearIdle /\ ChunkIdle /\ RetrIdle /\ MoreIdle

(***************************************************************************)
(* Bounds of the model.                                                    *)
(***************************************************************************)
MaxScaffoldRows == 2
MaxSourceRows == 2
MaxNameLen == 4
MaxDirFiles == 3
MaxSubCitations == 2
MaxPageWords == 3
MaxChunkWords == 3
MaxStride == 2
MaxClaims == 2

(***************************************************************************)
(* Generic helpers.                                                        *)
(***************************************************************************)
Range(s) == {s[i] : i \in DOMAIN s}

SeqsUpTo(S, n) == UNION {[1..k -> S] : k \in 0..n}

RECURSIVE Flatten(_)
Flatten(ss) == IF ss = <<>> THEN <<>> ELSE Head(ss) \o Flatten(Tail(ss))

\* the rows of s at the indices in keep, in order
AtIndices(s, keep) ==
    Flatten([i \in DOMAIN s |-> IF i \in keep THEN <<s[i]>> ELSE <<>>])

\* the sequence of functions rows, evaluated once
Rows(rows) == <<>> \o [i \in DOMAIN rows |-> rows[i] @@ <<>>]

NaN == "<NaN>"

(***************************************************************************)
(* scripts/50_adjudicate.py : columns                                      *)
(***************************************************************************)
BASE_COLS == <<"review_id", "section", "claim_id", "claim_text",
               "citation_author", "citation_year", "source_pdf_path">>
DECISION_COLS == <<"verdict", "rationale", "evidence_span",
                   "required_fix", "risk_flags", "page_anchor">>
REWRITE_COLS == <<"proposed_rewrite", "rewrite_notes", "rewrite_flags">>
ALL_COLS == BASE_COLS \o DECISION_COLS \o REWRITE_COLS
ON_COLS == <<"review_id", "section", "claim_id">>

\* a data frame: its columns and its rows (each a function on the columns)
Frame(cols, rows) == [cols |-> cols, rows |-> Rows(rows), exists |-> TRUE]
\* a file that does not exist
Absent == [cols |-> {}, rows |-> <<>>, exists |-> FALSE]
EmptyFrame == Frame({}, <<>>)
\* DataFrame.empty: no rows or no columns
IsEmpty(df) == df.rows = <<>> \/ df.cols = {}

\* the cells pandas.read_csv reads as missing
NA_VALUES == {"", "NA", "N/A", "NULL", "NaN", "nan", "null", "None", "n/a", "<NA>", "#N/A"}
fillna(v) == IF v = NaN THEN "" ELSE v

\* _read_csv: a missing file is an empty frame; every cell is read as a string
\* and a missing cell becomes ""
_read_csv(file) ==
    IF file = Absent THEN EmptyFrame
    ELSE Frame(file.cols,
               [i \in DOMAIN file.rows |->
                   [c \in file.cols |->
                       fillna(IF file.rows[i][c] \in NA_VALUES THEN NaN
                              ELSE file.rows[i][c])]])

\* _ensure_columns: add each missing column as ""
_ensure_columns(df, cols) ==
    Frame(df.cols \cup Range(cols),
          [i \in DOMAIN df.rows |->
              [c \in df.cols \cup Range(cols) |->
                  IF c \in df.cols THEN df.rows[i][c] ELSE ""]])

\* a scaffold of one row for each key
_scaffold_one_per_key(df) ==
    _ensure_columns(
        Frame(df.cols,
              AtIndices(df.rows,
                        {i \in DOMAIN df.rows :
                            \A j \in 1..(i - 1) : \E c \in df.cols : df.rows[j][c] # df.rows[i][c]})),
        ALL_COLS)
\* _scaffold_from_enriched, past its emptiness check: the BASE_COLS the input
\* has, then blank decision and rewrite columns
_scaffold_from_enriched(df) ==
    LET have == Range(BASE_COLS) \cap df.cols
        lft == Frame(have \cup Range(DECISION_COLS) \cup Range(REWRITE_COLS),
                     [i \in DOMAIN df.rows |->
                         [c \in have \cup Range(DECISION_COLS) \cup Range(REWRITE_COLS) |->
                             IF c \in have THEN fillna(df.rows[i][c]) ELSE ""]])
    IN  _ensure_columns(lft, ALL_COLS)

KeyOf(row, on) == [c \in Range(on) |-> row[c]]

\* _dedupe_by_key: drop_duplicates(subset=key_cols, keep="first")
_dedupe_keep_last(rows, on) ==
    AtIndices(rows, {i \in DOMAIN rows :
                        \A j \in (i + 1)..Len(rows) : KeyOf(rows[j], on) # KeyOf(rows[i], on)})
_dedupe_none(rows, on) == rows
_dedupe_by_key(rows, on) ==
    AtIndices(rows, {i \in DOMAIN rows :
                        \A j \in 1..(i - 1) : KeyOf(rows[j], on) # KeyOf(rows[i], on)})

\* DataFrame.merge(how="left", on=on, suffixes=("", "_r")): the left rows in
\* order, each once per matching right row (in right order), or once with
\* missing right cells when no right row matches
LeftMerge(lrows, rrows, rcols, on) ==
    Flatten([i \in DOMAIN lrows |->
        LET hits == {j \in DOMAIN rrows : KeyOf(rrows[j], on) = KeyOf(lrows[i], on)}
        IN  IF hits = {}
            THEN << [l |-> lrows[i], r |-> [c \in rcols |-> NaN]] >>
            ELSE [k \in 1..Cardinality(hits) |->
                    [l |-> lrows[i], r |-> AtIndices(rrows, hits)[k]]]])

\* merged.loc[before_blank, c] = candidate[before_blank]: a cell takes the
\* candidate only where it was blank
FillValueOverwrite(before, cand) == IF cand # "" THEN cand ELSE before
FillValue(before, cand) == IF fillna(before) = "" THEN cand ELSE before

\* filled_now: blank before and non-blank after
FilledNowNaive(before, after) == after # ""
FilledNow(before, after) == fillna(before) = "" /\ fillna(after) # ""

\* the candidate of column c for a merged row: its "<c>_r" cell, "" when the
\* right frame has no such column
Candidate(m, c, rcols) == IF c \in rcols THEN fillna(m.r[c]) ELSE ""

\* merge_fill: fill the blanks of left[DECISION_COLS] (and of source_pdf_path)
\* from right by the keys on_cols; returns the merged rows and the counts
merge_fill(lrows, rdf, on) ==
    IF IsEmpty(rdf)
    THEN [rows |-> lrows, counts |-> [c \in Range(DECISION_COLS) |-> 0]]
    ELSE
    LET keep == (Range(on) \cup Range(DECISION_COLS) \cup {"source_pdf_path"}) \cap rdf.cols
        r0 == Rows([i \in DOMAIN rdf.rows |-> [c \in keep |-> fillna(rdf.rows[i][c])]])
        r == _dedupe_by_key(r0, on)
        merged == LeftMerge(lrows, r, keep \ Range(on), on)
        fillcols == Range(DECISION_COLS) \cup
                    (IF "source_pdf_path" \in keep THEN {"source_pdf_path"} ELSE {})
        out == Rows([i \in DOMAIN merged |->
                  [c \in Range(ALL_COLS) |->
                      IF c \in fillcols
                      THEN FillValue(merged[i].l[c], Candidate(merged[i], c, keep \ Range(on)))
                      ELSE merged[i].l[c]]])
    IN  [rows |-> out,
         counts |-> [c \in Range(DECISION_COLS) |->
                       Cardinality({i \in DOMAIN merged :
                                       FilledNow(merged[i].l[c], out[i][c])})]]

\* _write_unmatched_keys: the keys of right (every row of it) that no left row
\* has; the file is written only when there is one
_write_unmatched_keys(rdf, lrows, on, old) ==
    IF IsEmpty(rdf) THEN old
    ELSE LET lk == {KeyOf(lrows[i], on) : i \in DOMAIN lrows}
             um == AtIndices([i \in DOMAIN rdf.rows |-> KeyOf(rdf.rows[i], on)],
                             {i \in DOMAIN rdf.rows : KeyOf(rdf.rows[i], on) \notin lk})
         IN  IF um # <<>> THEN Frame(Range(on), um) ELSE old

(***************************************************************************)
(* scripts/52_propose_rewrites.py                                          *)
(***************************************************************************)
\* str.strip() on the values the rewriter returns
strip(v) == IF v = " " THEN "" ELSE v

\* index: (review_id, claim_id) -> position of the last row with that pair
IndexOf(rows, rid, cid) ==
    CHOOSE i \in DOMAIN rows :
        /\ rows[i]["review_id"] = rid /\ rows[i]["claim_id"] = cid
        /\ \A j \in DOMAIN rows :
              (rows[j]["review_id"] = rid /\ rows[j]["claim_id"] = cid) => j <= i

\* targets: the rows with verdict UNSUPPORTED_FAIL, of one review when
\* --only-review is given, the first --limit of them when --limit is given
Targets(rows, only_review, limit) ==
    LET t1 == AtIndices(rows, {i \in DOMAIN rows :
                  /\ rows[i]["verdict"] = "UNSUPPORTED_FAIL"
                  /\ (only_review # "" => rows[i]["review_id"] = only_review)})
    IN  IF limit # 0 /\ Len(t1) > limit THEN SubSeq(t1, 1, limit) ELSE t1

\* the update of one target row with the rewriter's answer res
UpdateInPlace(rows, row, res) ==
    LET idx == IndexOf(rows, row["review_id"], row["claim_id"])
    IN  [rows EXCEPT ![idx] =
            [c \in DOMAIN rows[idx] |->
                CASE c = "proposed_rewrite" -> strip(res.proposed_rewrite)
                  [] c = "page_anchor"      -> strip(res.page_anchor)
                  [] c = "rewrite_notes"    -> res.notes
                  [] c = "rewrite_flags"    -> res.risk_flags
                  [] OTHER                  -> rows[idx][c]]]

\* the loop over the targets, answers[k] being the answer for the k-th target
RECURSIVE ProposeAll(_, _, _)
ProposeAll(rows, targets, answers) ==
    IF targets = <<>> THEN rows
    ELSE ProposeAll(UpdateInPlace(rows, Head(targets), Head(answers)),
                    Tail(targets), Tail(answers))

(***************************************************************************)
(* src/audit_lib/pdf_map.py : strings are sequences of characters.         *)
(* A character outside ASCII is written by its name: "rsquo" is U+2019,    *)
(* "ndash" U+2013, "uuml" U+00FC.                                          *)
(***************************************************************************)
LowerSeq == <<"a", "b", "c", "d", "e", "f", "g", "h", "i", "j", "k", "l", "m",
              "n", "o", "p", "q", "r", "s", "t", "u", "v", "w", "x", "y", "z">>
UpperSeq == <<"A", "B", "C", "D", "E", "F", "G", "H", "I", "J", "K", "L", "M",
              "N", "O", "P", "Q", "R", "S", "T", "U", "V", "W", "X", "Y", "Z">>
DigitSeq == <<"0", "1", "2", "3", "4", "5", "6", "7", "8", "9">>
Lower == Range(LowerSeq)
Upper == Range(UpperSeq)
Digits == Range(DigitSeq)
Letters == Lower \cup Upper
\* \w and \s of the re module
IsWord(ch) == ch \in Letters \cup Digits \cup {"_"}
IsSpace(ch) == ch = " "
UpToLow == [ch \in Upper |-> LowerSeq[CHOOSE i \in DOMAIN UpperSeq : UpperSeq[i] = ch]]
ToLower(ch) == IF ch \in Upper THEN UpToLow[ch] ELSE ch
LowerStr(s) == [i \in DOMAIN s |-> ToLower(s[i])]

\* the character of s at k, "" outside s
At(s, k) == IF k \in DOMAIN s THEN s[k] ELSE ""
\* \b just before position i of s
WB(s, i) == IsWord(At(s, i - 1)) # IsWord(At(s, i))

\* str.strip()
RECURSIVE LStrip(_)
LStrip(s) == IF s # <<>> /\ IsSpace(Head(s)) THEN LStrip(Tail(s)) ELSE s
RECURSIVE RStrip(_)
RStrip(s) == IF s # <<>> /\ IsSpace(s[Len(s)]) THEN RStrip(SubSeq(s, 1, Len(s) - 1)) ELSE s
StripStr(s) == RStrip(LStrip(s))

\* _strip_diacritics: NFKD, then the combining marks dropped
Undecorated(ch) ==
    CASE ch = "uuml" -> "u" [] ch = "eacute" -> "e" [] OTHER -> ch
_strip_diacritics(s) == [i \in DOMAIN s |-> Undecorated(s[i])]

\* _normalize_quotes_dashes
_normalize_quotes_dashes(s) ==
    [i \in DOMAIN s |->
        CASE s[i] \in {"lsquo", "rsquo"} -> "'"
          [] s[i] \in {"ldquo", "rdquo"} -> "dquote"
          [] s[i] \in {"ndash", "mdash", "minus"} -> "-"
          [] OTHER -> s[i]]

\* where a match of \bet\.?\s*al\.?\b that starts at i ends (the position
\* after it), 0 when none starts at i
RECURSIVE SkipSpaces(_, _)
SkipSpaces(s, j) == IF IsSpace(At(s, j)) THEN SkipSpaces(s, j + 1) ELSE j
EtAlEnd(s, i) ==
    LET j2 == IF At(s, i + 2) = "." THEN i + 3 ELSE i + 2
        j3 == SkipSpaces(s, j2)
        j4 == j3 + 2
    IN  IF /\ WB(s, i)
           /\ ToLower(At(s, i)) = "e" /\ ToLower(At(s, i + 1)) = "t"
           /\ ToLower(At(s, j3)) = "a" /\ ToLower(At(s, j3 + 1)) = "l"
        THEN IF At(s, j4) = "." /\ WB(s, j4 + 1) THEN j4 + 1
             ELSE IF WB(s, j4) THEN j4 ELSE 0
        ELSE 0
\* re.sub(r"\bet\.?\s*al\.?\b", "", s, flags=re.IGNORECASE)
RECURSIVE DropEtAl(_, _)
DropEtAl(s, i) ==
    IF i > Len(s) THEN <<>>
    ELSE IF EtAlEnd(s, i) # 0 THEN DropEtAl(s, EtAlEnd(s, i))
    ELSE <<s[i]>> \o DropEtAl(s, i + 1)

\* re.sub(r"[\(\)\[\]\{\}<>]", " ", s)
Brackets == {"(", ")", "[", "]", "{", "}", "<", ">"}
BlankBrackets(s) == [i \in DOMAIN s |-> IF s[i] \in Brackets THEN " " ELSE s[i]]

\* re.sub(r"\s+", " ", s).strip()
RECURSIVE SqueezeSpaces(_)
SqueezeSpaces(s) ==
    IF s = <<>> THEN <<>>
    ELSE IF IsSpace(Head(s)) /\ Len(s) >= 2 /\ IsSpace(s[2]) THEN SqueezeSpaces(Tail(s))
    ELSE <<Head(s)>> \o SqueezeSpaces(Tail(s))

\* re.split(r",|\band\b|&", s, maxsplit=1, flags=re.IGNORECASE)[0]
SepAt(s, i) ==
    \/ s[i] \in {",", "&"}
    \/ /\ WB(s, i) /\ WB(s, i + 3)
       /\ ToLower(At(s, i)) = "a" /\ ToLower(At(s, i + 1)) = "n" /\ ToLower(At(s, i + 2)) = "d"
FirstChunk(s) ==
    IF \E i \in DOMAIN s : SepAt(s, i)
    THEN SubSeq(s, 1, (CHOOSE i \in DOMAIN s :
                          SepAt(s, i) /\ \A j \in 1..(i - 1) : ~SepAt(s, j)) - 1)
    ELSE s

\* re.sub(r"([A-Za-z\-])(?:['’]s)\b", r"\1", first)
Apostrophes == {"'", "rsquo"}
RECURSIVE DropPossessive(_, _)
DropPossessive(s, i) ==
    IF i > Len(s) THEN <<>>
    ELSE IF /\ s[i] \in Letters \cup {"-"}
            /\ At(s, i + 1) \in Apostrophes
            /\ At(s, i + 2) = "s"
            /\ WB(s, i + 3)
         THEN <<s[i]>> \o DropPossessive(s, i + 3)
         ELSE <<s[i]>> \o DropPossessive(s, i + 1)

\* re.sub(r"['’]$", "", first)
DropTrailingApostrophe(s) ==
    IF s # <<>> /\ s[Len(s)] \in Apostrophes THEN SubSeq(s, 1, Len(s) - 1) ELSE s

\* re.split(r"\s+", first), the empty pieces dropped
RECURSIVE SplitSpaces(_, _)
SplitSpaces(s, cur) ==
    IF s = <<>> THEN (IF cur = <<>> THEN <<>> ELSE <<cur>>)
    ELSE IF IsSpace(Head(s))
         THEN (IF cur = <<>> THEN <<>> ELSE <<cur>>) \o SplitSpaces(Tail(s), <<>>)
         ELSE SplitSpaces(Tail(s), Append(cur, Head(s)))

\* re.sub(r"[^A-Za-z\-]", "", t)
LettersAndHyphens(t) == SelectSeq(t, LAMBDA ch : ch \in Letters \cup {"-"})

\* re.sub(r"_+", "_", key)
RECURSIVE SqueezeUnderscores(_)
SqueezeUnderscores(s) ==
    IF s = <<>> THEN <<>>
    ELSE IF Head(s) = "_" /\ Len(s) >= 2 /\ s[2] = "_" THEN SqueezeUnderscores(Tail(s))
    ELSE <<Head(s)>> \o SqueezeUnderscores(Tail(s))
\* str.strip("_")
RECURSIVE StripUnderscores(_)
StripUnderscores(s) ==
    IF s # <<>> /\ Head(s) = "_" THEN StripUnderscores(Tail(s))
    ELSE IF s # <<>> /\ s[Len(s)] = "_" THEN StripUnderscores(SubSeq(s, 1, Len(s) - 1))
    ELSE s

\* "_".join(parts)
RECURSIVE JoinUnderscore(_)
JoinUnderscore(parts) ==
    IF parts = <<>> THEN <<>>
    ELSE IF Len(parts) = 1 THEN parts[1]
    ELSE parts[1] \o <<"_">> \o JoinUnderscore(Tail(parts))

Particles == {<<"v", "a", "n">>, <<"v", "o", "n">>, <<"d", "e">>, <<"d", "e", "n">>,
              <<"d", "e", "r">>, <<"d", "e", "l">>, <<"l", "a">>, <<"l", "e">>,
              <<"d", "a">>}

\* the tokens that make the key: a leading particle with what follows it,
\* else the first two tokens
KeyTokens(tokens) ==
    IF LowerStr(tokens[1]) \in Particles
    THEN <<tokens[1]>>
         \o (IF Len(tokens) >= 2 THEN <<tokens[2]>> ELSE <<>>)
         \o (IF Len(tokens) >= 3 /\ LowerStr(tokens[2]) \in
                    {<<"d", "e", "n">>, <<"d", "e", "r">>, <<"d", "e">>}
             THEN <<tokens[3]>> ELSE <<>>)
    ELSE <<tokens[1]>> \o (IF Len(tokens) >= 2 THEN <<tokens[2]>> ELSE <<>>)

\* normalize_lead_surname
normalize_lead_surname(name) ==
    IF name = <<>> THEN <<>>
    ELSE
    LET s1 == StripStr(_strip_diacritics(_normalize_quotes_dashes(name)))
        s2 == DropEtAl(s1, 1)
        s3 == StripStr(SqueezeSpaces(BlankBrackets(s2)))
        f1 == StripStr(FirstChunk(s3))
        f2 == DropTrailingApostrophe(DropPossessive(f1, 1))
        raw == SplitSpaces(f2, <<>>)
        tokens == SelectSeq([i \in DOMAIN raw |-> LettersAndHyphens(raw[i])],
                            LAMBDA t : t # <<>>)
    IN  IF tokens = <<>> THEN <<>>
        ELSE LET kt == KeyTokens(tokens)
                 parts == [i \in DOMAIN kt |->
                            [j \in DOMAIN kt[i] |->
                                IF kt[i][j] = "-" THEN "_" ELSE ToLower(kt[i][j])]]
             IN  StripUnderscores(SqueezeUnderscores(JoinUnderscore(parts)))

\* the code-point order of the characters of file names
AsciiSeq == <<" ", "(", ")", ",", "-", ".">> \o DigitSeq \o UpperSeq \o <<"_">> \o LowerSeq
Ord(ch) == CHOOSE i \in DOMAIN AsciiSeq : AsciiSeq[i] = ch
\* a < b for strings
RECURSIVE StrLess(_, _)
StrLess(a, b) ==
    IF b = <<>> THEN FALSE
    ELSE IF a = <<>> THEN TRUE
    ELSE IF Head(a) = Head(b) THEN StrLess(Tail(a), Tail(b))
    ELSE Ord(Head(a)) < Ord(Head(b))

\* sorted(...) of a set of strings
RECURSIVE SortedStrs(_)
SortedStrs(S) ==
    IF S = {} THEN <<>>
    ELSE LET m == CHOOSE x \in S : \A y \in S \ {x} : StrLess(x, y)
         IN  <<m>> \o SortedStrs(S \ {m})

\* str(n) and int(s) for a year
RECURSIVE IntToStr(_)
IntToStr(n) == IF n < 10 THEN <<DigitSeq[n + 1]>>
               ELSE IntToStr(n \div 10) \o <<DigitSeq[(n % 10) + 1]>>
DigitVal(ch) == (CHOOSE i \in DOMAIN DigitSeq : DigitSeq[i] = ch) - 1
RECURSIVE StrToInt(_)
StrToInt(ds) == IF ds = <<>> THEN 0
                ELSE 10 * StrToInt(SubSeq(ds, 1, Len(ds) - 1)) + DigitVal(ds[Len(ds)])

EndsWith(s, suf) ==
    Len(s) >= Len(suf) /\ SubSeq(s, Len(s) - Len(suf) + 1, Len(s)) = suf
DotPdf == <<".", "p", "d", "f">>

\* _BASENAME_RE = ^([A-Za-z][A-Za-z _-]*)_(\d{4})\b.*\.pdf$ (IGNORECASE):
\* the end of the author-like prefix, 0 when the name does not match. The
\* prefix holds no digit, so it ends where the first run of [A-Za-z _-] ends.
PrefixChars == Letters \cup {" ", "_", "-"}
RECURSIVE RunEnd(_, _)
RunEnd(s, i) == IF At(s, i + 1) \in PrefixChars THEN RunEnd(s, i + 1) ELSE i
YearLen == 4
BasenameSplit(name) ==
    LET e == RunEnd(name, 0)
    IN  IF /\ e >= 2
           /\ name[1] \in Letters
           /\ name[e] = "_"
           /\ \A k \in 1..YearLen : At(name, e + k) \in Digits
           /\ WB(name, e + YearLen + 1)
           /\ Len(name) - Len(DotPdf) >= e + YearLen
           /\ EndsWith(LowerStr(name), DotPdf)
        THEN e ELSE 0

\* _norm_file_surname
_norm_file_surname(raw) ==
    LET s1 == _normalize_quotes_dashes(StripStr(_strip_diacritics(raw)))
        s2 == [i \in DOMAIN s1 |->
                 IF s1[i] \in {" ", "-"} \/ s1[i] \notin Letters \cup {"_"}
                 THEN "_" ELSE s1[i]]
    IN  StripUnderscores(LowerStr(SqueezeUnderscores(s2)))

\* the index key of a file name the pattern matches
FileKey(name) ==
    LET e == BasenameSplit(name)
    IN  <<_norm_file_surname(SubSeq(name, 1, e - 1)),
          StrToInt(SubSeq(name, e + 1, e + YearLen))>>

\* build_pdf_index: the files of the directory that pdf_dir.glob("*.pdf")
\* yields and the pattern matches, in sorted order, under (surname key, year);
\* a key without files maps to the empty list
build_pdf_index(dir) ==
    LET names == SortedStrs({n \in dir : EndsWith(n, DotPdf) /\ BasenameSplit(n) # 0})
    IN  [k \in {FileKey(n) : n \in Range(names)} |->
            SelectSeq(names, LAMBDA n : FileKey(n) = k)]
\* index.get(k, []), and a variant that falls back to another year of the surname
IndexGetAnyYear(index, k) ==
    IF k \in DOMAIN index THEN index[k]
    ELSE IF \E h \in DOMAIN index : h[1] = k[1]
         THEN index[CHOOSE h \in DOMAIN index : h[1] = k[1]]
         ELSE <<>>
IndexGet(index, k) == IF k \in DOMAIN index THEN index[k] ELSE <<>>

\* _tie_break: the candidate named "<key>_<year>.pdf" whatever the case, else
\* the first under (len(name), name.lower())
SortKeyLess(a, b) ==
    \/ Len(a) < Len(b)
    \/ Len(a) = Len(b) /\ StrLess(LowerStr(a), LowerStr(b))
_tie_break(surname_key, year, candidates) ==
    LET exact == LowerStr(surname_key \o <<"_">> \o IntToStr(year) \o DotPdf)
        hits == {i \in DOMAIN candidates : LowerStr(candidates[i]) = exact}
        best == {i \in DOMAIN candidates :
                    \A j \in DOMAIN candidates : ~SortKeyLess(candidates[j], candidates[i])}
    IN  IF hits # {}
        THEN candidates[CHOOSE i \in hits : \A j \in hits : i <= j]
        ELSE candidates[CHOOSE i \in best : \A j \in best : i <= j]

\* the first position at which sub occurs in s, 0 when nowhere
Find(s, sub) ==
    LET at == {i \in 1..(Len(s) - Len(sub) + 1) : SubSeq(s, i, i + Len(sub) - 1) = sub}
    IN  IF at = {} THEN 0 ELSE CHOOSE i \in at : \A j \in at : i <= j

\* re.split(r";", s)
RECURSIVE SplitSemicolon(_, _)
SplitSemicolon(s, cur) ==
    IF s = <<>> THEN <<cur>>
    ELSE IF Head(s) = ";" THEN <<cur>> \o SplitSemicolon(Tail(s), <<>>)
    ELSE SplitSemicolon(Tail(s), Append(cur, Head(s)))

\* re.sub(r"[,\s]+$", "", head)
RECURSIVE DropTrailingCommas(_)
DropTrailingCommas(s) ==
    IF s # <<>> /\ (s[Len(s)] = "," \/ IsSpace(s[Len(s)]))
    THEN DropTrailingCommas(SubSeq(s, 1, Len(s) - 1)) ELSE s

\* _author_key_from_text_fragment: the key of what precedes the year in the
\* first semicolon-separated part that holds the year; the variant takes the
\* first part whatever its year, up to its first comma
_author_key_from_first_fragment(citation_text, year) ==
    IF citation_text = <<>> \/ year = 0 THEN <<>>
    ELSE
    LET q == StripStr(Head(SplitSemicolon(citation_text, <<>>)))
        c == Find(q, <<",">>)
    IN  normalize_lead_surname(IF c = 0 THEN q ELSE SubSeq(q, 1, c - 1))
_author_key_from_text_fragment(citation_text, year) ==
    IF citation_text = <<>> \/ year = 0 THEN <<>>
    ELSE
    LET s == _normalize_quotes_dashes(_strip_diacritics(citation_text))
        pieces == SplitSemicolon(s, <<>>)
        stripped == SelectSeq([i \in DOMAIN pieces |-> StripStr(pieces[i])],
                              LAMBDA q : q # <<>>)
        parts == IF stripped = <<>> THEN <<s>> ELSE stripped
        y == IntToStr(year)
        holders == {i \in DOMAIN parts : Find(parts[i], y) # 0}
    IN  IF holders = {} THEN <<>>
        ELSE LET q == parts[CHOOSE i \in holders : \A j \in holders : i <= j]
             IN  normalize_lead_surname(DropTrailingCommas(SubSeq(q, 1, Find(q, y) - 1)))

NoPath == <<>>
ResolveResult(path, candidates, reason) ==
    [path |-> path, candidates |-> candidates, reason |-> reason]

NoResult == ResolveResult(NoPath, <<>>, "unset")
Query(author, year, citation_text) ==
    [author |-> author, year |-> year, citation_text |-> citation_text]
NoQuery == Query(<<>>, 0, <<>>)

\* the end of resolve_source_pdf: the outcome for the candidates found, and a
\* variant that takes the first of several candidates without a flag
OutcomeUnflagged(surname_key, year, candidates) ==
    IF candidates = <<>> THEN ResolveResult(NoPath, <<>>, "no_match")
    ELSE ResolveResult(candidates[1], candidates, "none")
Outcome(surname_key, year, candidates) ==
    IF candidates = <<>> THEN ResolveResult(NoPath, <<>>, "no_match")
    ELSE IF Len(candidates) = 1 THEN ResolveResult(candidates[1], candidates, "none")
    ELSE ResolveResult(_tie_break(surname_key, year, candidates), candidates, "ambiguous")

\* resolve_source_pdf
resolve_source_pdf(author, year, idx, citation_text) ==
    LET surname_key == normalize_lead_surname(author)
        direct == IndexGet(idx, <<surname_key, year>>)
        alt_key == _author_key_from_text_fragment(citation_text, year)
        candidates ==
            IF direct = <<>> /\ citation_text # <<>> /\ alt_key # <<>> /\ alt_key # surname_key
            THEN IndexGet(idx, <<alt_key, year>>)
            ELSE direct
    IN  IF surname_key = <<>> \/ year = 0 THEN ResolveResult(NoPath, <<>>, "no_match")
        ELSE Outcome(surname_key, year, candidates)

(***************************************************************************)
(* src/audit_lib/enrich/pdf_match.py : the year of a claim's citation.     *)
(***************************************************************************)
\* s.replace("&", " and ")
RECURSIVE AmpToAnd(_)
AmpToAnd(s) ==
    IF s = <<>> THEN <<>>
    ELSE (IF Head(s) = "&" THEN <<" ", "a", "n", "d", " ">> ELSE <<Head(s)>>)
         \o AmpToAnd(Tail(s))
\* s.replace(" ", "_"), then re.sub(r"_+", "_", s)
SpacesToUnderscores(s) ==
    SqueezeUnderscores([i \in DOMAIN s |-> IF IsSpace(s[i]) THEN "_" ELSE s[i]])

\* norm_pdf_stem: string.punctuation holds "_", so after the translate only
\* letters, digits and blanks are left
norm_pdf_stem(name) ==
    LET s1 == AmpToAnd([i \in DOMAIN name |-> IF name[i] = "-" THEN "_" ELSE name[i]])
        s2 == [i \in DOMAIN s1 |-> IF s1[i] \in Letters \cup Digits THEN s1[i] ELSE " "]
    IN  SpacesToUnderscores(StripStr(SqueezeSpaces(LowerStr(s2))))

\* where a match of YEAR_RE that starts at i ends (the position after it),
\* 0 when none starts at i
YearEnd(s, i) ==
    IF /\ WB(s, i)
       /\ <<At(s, i), At(s, i + 1)>> \in {<<"1", "9">>, <<"2", "0">>}
       /\ At(s, i + 2) \in Digits /\ At(s, i + 3) \in Digits
    THEN IF At(s, i + 4) \in Letters /\ WB(s, i + 5) THEN i + 5
         ELSE IF WB(s, i + 4) THEN i + 4 ELSE 0
    ELSE 0
\* extract_year; None is the empty string
NoYear == <<>>
extract_year(s) ==
    IF \E i \in DOMAIN s : YearEnd(s, i) # 0
    THEN LET i == CHOOSE i \in DOMAIN s :
                     YearEnd(s, i) # 0 /\ \A j \in 1..(i - 1) : YearEnd(s, j) = 0
         IN  LowerStr(SubSeq(s, i, YearEnd(s, i) - 1))
    ELSE NoYear

\* strip_et_al
strip_et_al(s) == DropEtAl(s, 1)

\* re.split(r"\band\b|,|–|—", a, maxsplit=1, flags=re.IGNORECASE)[0]
PieceSepAt(s, i) ==
    \/ s[i] \in {",", "ndash", "mdash"}
    \/ /\ WB(s, i) /\ WB(s, i + 3)
       /\ ToLower(At(s, i)) = "a" /\ ToLower(At(s, i + 1)) = "n" /\ ToLower(At(s, i + 2)) = "d"
FirstPiece(s) ==
    IF \E i \in DOMAIN s : PieceSepAt(s, i)
    THEN SubSeq(s, 1, (CHOOSE i \in DOMAIN s :
                          PieceSepAt(s, i) /\ \A j \in 1..(i - 1) : ~PieceSepAt(s, j)) - 1)
    ELSE s

\* primary_author_from_citation_author
AuthorPunct == {"(", ")", "[", "]", "{", "}", ",", ".", ";", ":"}
primary_author_from_citation_author(cit_author) ==
    LET a1 == AmpToAnd(strip_et_al(cit_author))
        a2 == [i \in DOMAIN a1 |-> IF a1[i] \in AuthorPunct THEN " " ELSE a1[i]]
        a3 == StripStr(SqueezeSpaces(a2))
        first_piece == StripStr(FirstPiece(a3))
        b1 == [i \in DOMAIN first_piece |->
                 IF first_piece[i] = "-" THEN "_" ELSE ToLower(first_piece[i])]
        b2 == SelectSeq(b1, LAMBDA ch : ch \notin Apostrophes)
        b3 == SqueezeSpaces(b2)
    IN  StripUnderscores([i \in DOMAIN b3 |-> IF IsSpace(b3[i]) THEN "_" ELSE b3[i]])

\* split_multi_citation_parts
split_multi_citation_parts(citation_text) ==
    LET t0 == StripStr(citation_text)
        t == IF t0 # <<>> /\ t0[1] = "(" /\ t0[Len(t0)] = ")"
             THEN SubSeq(t0, 2, Len(t0) - 1) ELSE t0
        parts == SplitSemicolon(t, <<>>)
    IN  IF citation_text = <<>> THEN <<>>
        ELSE SelectSeq([i \in DOMAIN parts |-> StripStr(parts[i])], LAMBDA q : q # <<>>)

\* re.search(rf"(?:^|_){re.escape(v)}(?:_|$)", pn)
HasToken(pn, v) ==
    \E i \in 1..(Len(pn) - Len(v) + 1) :
       /\ SubSeq(pn, i, i + Len(v) - 1) = v
       /\ i = 1 \/ pn[i - 1] = "_"
       /\ i + Len(v) = Len(pn) + 1 \/ pn[i + Len(v)] = "_"

\* the year of a sub-citation, read from its normalized text
PartYear(part) == extract_year(norm_pdf_stem(part))

\* infer_year_for_target_author
infer_year_for_target_author(citation_author, citation_text) ==
    LET primary == primary_author_from_citation_author(citation_author)
        primary_variants == {primary, SelectSeq(primary, LAMBDA ch : ch # "_")}
        parts == split_multi_citation_parts(citation_text)
        hits == {i \in DOMAIN parts :
                    /\ \E v \in primary_variants : HasToken(norm_pdf_stem(parts[i]), v)
                    /\ PartYear(parts[i]) # NoYear}
    IN  IF citation_text = <<>> \/ primary = <<>> THEN NoYear
        ELSE IF hits # {}
             THEN PartYear(parts[CHOOSE i \in hits : \A j \in hits : i <= j])
             ELSE extract_year(citation_text)

\* resolve_pdf_path, the year it hands to score_pdf_match; the row has no
\* primary_mentioned_year
WantYear(year, cit_year, cit_text) ==
    IF year # NoYear THEN year
    ELSE IF cit_year # NoYear THEN cit_year
    ELSE extract_year(cit_text)

(***************************************************************************)
(* src/audit_lib/retrieval.py : the text of a page or window is the        *)
(* sequence of its whitespace tokens.                                      *)
(***************************************************************************)
Min(S) == CHOOSE x \in S : \A y \in S : x <= y
Max(S) == CHOOSE x \in S : \A y \in S : y <= x
\* sorted(pages.items(), key=lambda kv: int(kv[0])), the page numbers
RECURSIVE SortedNums(_)
SortedNums(S) == IF S = {} THEN <<>> ELSE <<Min(S)>> \o SortedNums(S \ {Min(S)})

\* range(0, n - chunk_words + 1, stride): the range without its floor of 1
WindowStartsNoFloor(n, chunk_words, stride) ==
    SelectSeq([k \in 1..(n - chunk_words + 1) |-> k - 1], LAMBDA i : i % stride = 0)
\* range(0, max(1, n - chunk_words + 1), stride)
WindowStarts(n, chunk_words, stride) ==
    LET stop == IF n - chunk_words + 1 > 1 THEN n - chunk_words + 1 ELSE 1
    IN  SelectSeq([k \in 1..stop |-> k - 1], LAMBDA i : i % stride = 0)
\* words[i : i + chunk_words]
Slice(words, i, chunk_words) ==
    SubSeq(words, i + 1, IF i + chunk_words < Len(words) THEN i + chunk_words ELSE Len(words))

\* the windows of one page
PageWindows(pno, words, chunk_words, stride) ==
    LET starts == WindowStarts(Len(words), chunk_words, stride)
    IN  [k \in DOMAIN starts |->
            [page_start |-> pno, page_end |-> pno,
             text |-> Slice(words, starts[k], chunk_words)]]

\* the windows over the token stream of all pages
CrossPageWindows(pgs, chunk_words, stride) ==
    LET items == SortedNums(DOMAIN pgs)
        tokens == Flatten([k \in DOMAIN items |-> pgs[items[k]]])
        token_pages == Flatten([k \in DOMAIN items |->
                                  [w \in DOMAIN pgs[items[k]] |-> items[k]]])
        starts == WindowStarts(Len(tokens), chunk_words, stride)
    IN  IF tokens = <<>> THEN <<>>
        ELSE [k \in DOMAIN starts |->
                LET pages_in_window == Range(Slice(token_pages, starts[k], chunk_words))
                IN  [page_start |-> Min(pages_in_window), page_end |-> Max(pages_in_window),
                     text |-> Slice(tokens, starts[k], chunk_words)]]

\* chunk_pages_to_windows, and a variant that always slides over the token
\* stream of all pages
chunk_pages_to_windows_stream(pgs, chunk_words, stride, cross_page) ==
    CrossPageWindows(pgs, chunk_words, stride)
chunk_pages_to_windows(pgs, chunk_words, stride, cross_page) ==
    LET items == SortedNums(DOMAIN pgs)
    IN  IF ~cross_page
        THEN Flatten([k \in DOMAIN items |->
                        IF pgs[items[k]] = <<>> THEN <<>>
                        ELSE PageWindows(items[k], pgs[items[k]], chunk_words, stride)])
        ELSE CrossPageWindows(pgs, chunk_words, stride)

(***************************************************************************)
(* scripts/40_retrieve_candidates.py                                       *)
(***************************************************************************)
CHUNK_W == 2
STRIDE == 1
TOPK == 2

TRUEY == {<<"1">>, <<"t", "r", "u", "e">>, <<"t">>, <<"y">>, <<"y", "e", "s">>}
\* as_bool of a string
as_bool(val) == LowerStr(StripStr(val)) \in TRUEY

\* a text file of TEXT_DIR: whether it has any character, and split_pages of it
TextFile(nonempty, pgs) == [nonempty |-> nonempty, pages |-> pgs]
NoText == TextFile(FALSE, <<>>)
\* load_source_text: "" for no path and for a missing file; and a variant that
\* reads some other text of the directory instead
load_source_text_any(pdf_path, dir) ==
    IF pdf_path = "" THEN NoText
    ELSE IF pdf_path \notin DOMAIN dir
         THEN (IF DOMAIN dir = {} THEN NoText ELSE dir[CHOOSE f \in DOMAIN dir : TRUE])
    ELSE dir[pdf_path]
load_source_text(pdf_path, dir) ==
    IF pdf_path = "" THEN NoText
    ELSE IF pdf_path \notin DOMAIN dir THEN NoText
    ELSE dir[pdf_path]

\* ptext.find(q) != -1, on the tokens
Contains(words, q) ==
    \E i \in 1..(Len(words) - Len(q) + 1) : SubSeq(words, i, i + Len(q) - 1) = q
\* find_exact_quote_pages: quoted is the set of quoted spans of the claim text
find_exact_quote_pages(pgs, quoted) ==
    SortedNums({pno \in DOMAIN pgs : \E q \in quoted : Contains(pgs[pno], q)})

\* the offsets dict of main: the last row of a source wins
ReadOffsets(file) ==
    IF ~file.exists THEN <<>>
    ELSE [src \in {file.rows[i].source_pdf_path : i \in DOMAIN file.rows} |->
            file.rows[Max({i \in DOMAIN file.rows : file.rows[i].source_pdf_path = src})]
                .logical_minus_pdf_offset]
\* offsets.get(pdf_path): whether there is a value, and the value
OffsetsGetOrZero(offs, pdf_path) ==
    IF pdf_path \in DOMAIN offs THEN [found |-> TRUE, off |-> offs[pdf_path]]
    ELSE [found |-> TRUE, off |-> 0]
OffsetsGet(offs, pdf_path) ==
    IF pdf_path \in DOMAIN offs THEN [found |-> TRUE, off |-> offs[pdf_path]]
    ELSE [found |-> FALSE, off |-> 0]

\* re.search(r"(\d+)", stated): the number of the first run of digits, -1
\* when there is no digit
StatedNumber(stated) ==
    LET s == StripStr(stated)
    IN  IF \E i \in DOMAIN s : s[i] \in Digits
        THEN LET b == Min({i \in DOMAIN s : s[i] \in Digits})
                 e == Min({j \in b..Len(s) : At(s, j + 1) \notin Digits})
             IN  StrToInt(SubSeq(s, b, e))
        ELSE -1

\* an item of the evidence list; idx is the window it was made from and via
\* the strategy that added it, neither is written to the file
Item(ch, score, idx, via) ==
    [page_range |-> <<ch.page_start, ch.page_end>>, text |-> ch.text, score |-> score,
     idx |-> idx, via |-> via]

\* add_page_chunks: candidate_chunks and used_idx after the call
add_page_chunks(chs, cand, used, target_pages, max_add, via) ==
    LET fit == SelectSeq([i \in DOMAIN chs |-> i],
                  LAMBDA i : /\ i \notin used
                             /\ \E pg \in target_pages :
                                   chs[i].page_start <= pg /\ pg <= chs[i].page_end)
        n == IF max_add < 1 THEN 1 ELSE max_add
        take == SubSeq(fit, 1, IF Len(fit) < n THEN Len(fit) ELSE n)
    IN  [cand |-> cand \o [k \in DOMAIN take |-> Item(chs[take[k]], 100, take[k], via)],
         used |-> used \cup Range(take)]

\* process.extract(claim, corpus, scorer=fuzz.token_set_ratio, limit=k): the
\* windows by falling score, the earlier window first among equals
RECURSIVE Ranked(_, _)
Ranked(sc, left_idx) ==
    IF left_idx = {} THEN <<>>
    ELSE LET best == CHOOSE i \in left_idx :
                        \A j \in left_idx : sc[j] < sc[i] \/ (sc[j] = sc[i] /\ i <= j)
         IN  <<best>> \o Ranked(sc, left_idx \ {best})
\* top_k_chunks_for_claim, for k > 0
top_k_chunks_for_claim(sc, chs, k) ==
    LET all == Ranked(sc, DOMAIN chs)
        ranked == SubSeq(all, 1, IF Len(all) < k THEN Len(all) ELSE k)
    IN  [r \in DOMAIN ranked |-> Item(chs[ranked[r]], sc[ranked[r]], ranked[r], "fuzzy")]

\* candidate_chunks[:TOPK], and the list as it is
Untruncated(cand, k) == cand
Truncated(cand, k) == SubSeq(cand, 1, IF Len(cand) < k THEN Len(cand) ELSE k)

\* main, the body of the loop for a row with a text: the evidence of the claim
Evidence(row, pgs, offs, sc) ==
    LET chs == chunk_pages_to_windows(pgs, CHUNK_W, STRIDE, FALSE)
        exact_pages == find_exact_quote_pages(pgs, row.quoted)
        c1 == IF as_bool(row.is_quote) /\ exact_pages # <<>>
              THEN add_page_chunks(chs, <<>>, {}, Range(exact_pages), TOPK, "quote")
              ELSE [cand |-> <<>>, used |-> {}]
        m == StatedNumber(row.stated_page)
        off == OffsetsGet(offs, row.source_pdf_path)
        mapped_pdf_page == m - off.off
        c2 == IF m # -1 /\ off.found /\ mapped_pdf_page \in DOMAIN pgs
              THEN add_page_chunks(chs, c1.cand, c1.used, {mapped_pdf_page},
                                   IF TOPK - Len(c1.cand) > 1 THEN TOPK - Len(c1.cand) ELSE 1,
                                   "offset")
              ELSE c1
        c3 == IF Len(c2.cand) < TOPK
              THEN c2.cand \o top_k_chunks_for_claim(sc, chs, TOPK - Len(c2.cand))
              ELSE c2.cand
    IN  Truncated(c3, TOPK)

(***************************************************************************)
(* Inputs.                                                                 *)
(***************************************************************************)
Key(rid, sec, cid) == [review_id |-> rid, section |-> sec, claim_id |-> cid]
\* three claim keys; the first two differ in the section alone
K1 == Key("r1", "s1", "c1")
K2 == Key("r1", "s2", "c1")
K3 == Key("r1", "s1", "c2")
Keys == {K1, K2, K3}

\* a row of the enriched registry
EnrichedRow(k) ==
    [c \in Range(BASE_COLS) |->
        CASE c = "review_id" -> k.review_id
          [] c = "section" -> k.section
          [] c = "claim_id" -> k.claim_id
          [] c = "source_pdf_path" -> IF k.section = "s2" THEN "a.pdf" ELSE ""
          [] OTHER -> "t"]
EnrichedFiles ==
    {Absent} \cup
    {Frame(Range(BASE_COLS), rows) :
        rows \in SeqsUpTo({EnrichedRow(k) : k \in Keys}, MaxScaffoldRows)}

\* what a decision source says of one claim: a verdict, one value for the
\* other decision columns, one for source_pdf_path
Fail == [verdict |-> "UNSUPPORTED_FAIL", rest |-> "", path |-> "b.pdf"]
Decisions ==
    { Fail,
      [verdict |-> "NA",        rest |-> "x", path |-> ""],
      [verdict |-> "SUPPORTED", rest |-> "y", path |-> "c.pdf"] }
LEGACY_COLS == Range(BASE_COLS) \cup Range(DECISION_COLS)
LegacyRow(k, d) ==
    [c \in LEGACY_COLS |->
        CASE c = "review_id" -> k.review_id
          [] c = "section" -> k.section
          [] c = "claim_id" -> k.claim_id
          [] c = "source_pdf_path" -> d.path
          [] c = "verdict" -> d.verdict
          [] c \in Range(DECISION_COLS) -> d.rest
          [] OTHER -> "t"]
\* the rows a decision source is made of: any decision for K1, a failed
\* verdict for K2
SourceRows == {LegacyRow(K1, d) : d \in Decisions} \cup {LegacyRow(K2, Fail)}
LegacyFiles ==
    {Absent} \cup
    {Frame(LEGACY_COLS, rows) : rows \in SeqsUpTo(SourceRows, MaxSourceRows)}

\* what the rewriter answers for one target: a rewrite, an empty object, the
\* sentinel of a failed call
Answers ==
    { [proposed_rewrite |-> "R", page_anchor |-> "p5", notes |-> "n", risk_flags |-> "f"],
      [proposed_rewrite |-> " ", page_anchor |-> "", notes |-> "", risk_flags |-> ""],
      [proposed_rewrite |-> "", page_anchor |-> "", notes |-> "LLM error",
       risk_flags |-> "llm_error"] }

ZeroCounts == [c \in Range(DECISION_COLS) |-> 0]

(***************************************************************************)
(* Spec: whole runs over the files.                                        *)
(***************************************************************************)
Init ==
    /\ enriched \in EnrichedFiles
    /\ legacy \in LegacyFiles
    /\ ledger = Absent
    /\ unmatched = Absent
    /\ counts = ZeroCounts
    /\ status = "none"
    /\ left = <<>> /\ prev = <<>> /\ right = Absent /\ phase = "files"
    /\ author_name = <<>> /\ author_key = <<>> /\ author_rekey = <<>>
    /\ pdf_dir = {} /\ pdf_index = <<>> /\ query = NoQuery /\ result = NoResult /\ pc = "idle"
    /\ RestIdle

\* 50_adjudicate.main with a missing or empty scaffold input: sys.exit(2)
Run50Fatal ==
    /\ IsEmpty(_read_csv(enriched))
    /\ status' = "fatal"
    /\ UNCHANGED <<enriched, legacy, ledger, unmatched, counts, left, prev, right, phase>>
    /\ UNCHANGED mapVars
    /\ UNCHANGED restVars

\* 50_adjudicate.main
Run50 ==
    /\ ~IsEmpty(_read_csv(enriched))
    /\ \E lft \in {_scaffold_from_enriched(_read_csv(enriched)).rows},
          lg0 \in {_read_csv(legacy)} :
         IF IsEmpty(lg0)
         THEN /\ ledger' = Frame(Range(ALL_COLS), lft)
              /\ UNCHANGED <<unmatched, counts>>
         ELSE \E lg \in {_ensure_columns(lg0, BASE_COLS \o DECISION_COLS)} :
              \E mf \in {merge_fill(lft, lg, ON_COLS)} :
                /\ ledger' = Frame(Range(ALL_COLS),
                                   [i \in DOMAIN mf.rows |->
                                       [c \in Range(ALL_COLS) |-> fillna(mf.rows[i][c])]])
                /\ counts' = mf.counts
                /\ unmatched' = _write_unmatched_keys(lg, mf.rows, ON_COLS, unmatched)
    /\ status' = "ok50"
    /\ UNCHANGED <<enriched, legacy, left, prev, right, phase>>
    /\ UNCHANGED mapVars
    /\ UNCHANGED restVars

\* 52_propose_rewrites.main
Run52 ==
    /\ ledger # Absent
    /\ enriched # Absent
    /\ \E only_review \in {"", "r2"}, limit \in {0, 1} :
         LET targets == Targets(ledger.rows, only_review, limit)
         IN  \E answers \in [1..Len(targets) -> Answers] :
                ledger' = Frame(ledger.cols, ProposeAll(ledger.rows, targets, answers))
    /\ status' = "ok52"
    /\ UNCHANGED <<enriched, legacy, unmatched, counts, left, prev, right, phase>>
    /\ UNCHANGED mapVars
    /\ UNCHANGED restVars

Next == Run50Fatal \/ Run50 \/ Run52

Spec == Init /\ [][Next]_vars

(***************************************************************************)
(* SpecMerge: 50_adjudicate.main step by step, with successive passes.     *)
(***************************************************************************)
InitMerge ==
    /\ enriched \in EnrichedFiles
    /\ legacy = Absent
    /\ ledger = Absent
    /\ unmatched = Absent
    /\ counts = ZeroCounts
    /\ status = "none"
    /\ left = <<>> /\ prev = <<>> /\ right = Absent /\ phase = "start"
    /\ author_name = <<>> /\ author_key = <<>> /\ author_rekey = <<>>
    /\ pdf_dir = {} /\ pdf_index = <<>> /\ query = NoQuery /\ result = NoResult /\ pc = "idle"
    /\ RestIdle

\* main, step 1 with a missing or empty scaffold input
ScaffoldFatal ==
    /\ phase = "start"
    /\ IsEmpty(_read_csv(enriched))
    /\ phase' = "fatal"
    /\ status' = "fatal"
    /\ UNCHANGED <<enriched, legacy, ledger, unmatched, counts, left, prev, right>>
    /\ UNCHANGED mapVars
    /\ UNCHANGED restVars

\* main, step 1: the scaffold pass
Scaffold ==
    /\ phase = "start"
    /\ ~IsEmpty(_read_csv(enriched))
    /\ left' = _scaffold_from_enriched(_read_csv(enriched)).rows
    /\ phase' = "scaffolded"
    /\ UNCHANGED <<enriched, legacy, ledger, unmatched, counts, status, prev, right>>
    /\ UNCHANGED mapVars
    /\ UNCHANGED restVars

\* main, steps 2 to 4 for the source file src: read it, merge-fill, report
\* the unmatched keys
PassWith(src) ==
    /\ prev' = left
    /\ right' = src
    /\ \E lg0 \in {_read_csv(src)} :
         IF IsEmpty(lg0)
         THEN UNCHANGED <<left, counts, unmatched>>
         ELSE \E lg \in {_ensure_columns(lg0, BASE_COLS \o DECISION_COLS)} :
              \E mf \in {merge_fill(left, lg, ON_COLS)} :
                /\ left' = mf.rows
                /\ counts' = mf.counts
                /\ unmatched' = _write_unmatched_keys(lg, mf.rows, ON_COLS, unmatched)
    /\ UNCHANGED <<enriched, legacy, ledger, status>>
    /\ UNCHANGED mapVars
    /\ UNCHANGED restVars

\* the first merge-fill pass
MergePass ==
    /\ phase = "scaffolded"
    /\ \E src \in LegacyFiles : PassWith(src)
    /\ phase' = "merged"

\* a later merge-fill pass, with any source
MergeNext ==
    /\ phase = "merged"
    /\ \E src \in LegacyFiles : PassWith(src)
    /\ phase' = "merged2"

\* the last source merged a second time
Remerge ==
    /\ phase \in {"merged", "merged2"}
    /\ PassWith(right)
    /\ phase' = "remerged"

\* the whole run replayed on the same inputs
Rerun ==
    /\ phase = "merged"
    /\ \E lft \in {_scaffold_from_enriched(_read_csv(enriched)).rows},
          lg0 \in {_read_csv(right)} :
         IF IsEmpty(lg0)
         THEN left' = lft
         ELSE \E lg \in {_ensure_columns(lg0, BASE_COLS \o DECISION_COLS)} :
                left' = merge_fill(lft, lg, ON_COLS).rows
    /\ prev' = left
    /\ phase' = "rerun"
    /\ UNCHANGED <<enriched, legacy, ledger, unmatched, counts, status, right>>
    /\ UNCHANGED mapVars
    /\ UNCHANGED restVars

\* main, step 5: normalise and write the ledger
Write ==
    /\ phase \in {"scaffolded", "merged", "merged2", "remerged", "rerun"}
    /\ ledger' = Frame(Range(ALL_COLS),
                       [i \in DOMAIN left |-> [c \in Range(ALL_COLS) |-> fillna(left[i][c])]])
    /\ phase' = "written"
    /\ status' = "ok50"
    /\ UNCHANGED <<enriched, legacy, unmatched, counts, left, prev, right>>
    /\ UNCHANGED mapVars
    /\ UNCHANGED restVars

NextMerge == ScaffoldFatal \/ Scaffold \/ MergePass \/ MergeNext \/ Remerge \/ Rerun \/ Write

SpecMerge == InitMerge /\ [][NextMerge]_vars

(***************************************************************************)
(* Inputs of SpecNorm and SpecResolve.                                     *)
(***************************************************************************)
\* names over a small alphabet, and the names of tests/test_pdf_mapping.py
NameAlphabet == {"d", "e", "B", " ", "-", "_", ","}
ExampleNames ==
    { \* Cannon-Bowers
      <<"C", "a", "n", "n", "o", "n", "-", "B", "o", "w", "e", "r", "s">>,
      \* de Haan
      <<"d", "e", " ", "H", "a", "a", "n">>,
      \* Van den Broeck
      <<"V", "a", "n", " ", "d", "e", "n", " ", "B", "r", "o", "e", "c", "k">>,
      \* World Bank
      <<"W", "o", "r", "l", "d", " ", "B", "a", "n", "k">>,
      \* Johnson et al.
      <<"J", "o", "h", "n", "s", "o", "n", " ", "e", "t", " ", "a", "l", ".">>,
      \* Ripoll Lorenzo
      <<"R", "i", "p", "o", "l", "l", " ", "L", "o", "r", "e", "n", "z", "o">>,
      \* CLEAR-AA
      <<"C", "L", "E", "A", "R", "-", "A", "A">> }
Names == SeqsUpTo(NameAlphabet, MaxNameLen) \cup ExampleNames

\* file names of the directory of source PDFs
FileMenu ==
    { \* Smith_2010.pdf
      <<"S", "m", "i", "t", "h", "_", "2", "0", "1", "0", ".", "p", "d", "f">>,
      \* smith_2010.pdf
      <<"s", "m", "i", "t", "h", "_", "2", "0", "1", "0", ".", "p", "d", "f">>,
      \* Smith_2010-v2.pdf
      <<"S", "m", "i", "t", "h", "_", "2", "0", "1", "0", "-", "v", "2", ".", "p", "d", "f">>,
      \* Smith_2010_v2.pdf
      <<"S", "m", "i", "t", "h", "_", "2", "0", "1", "0", "_", "v", "2", ".", "p", "d", "f">>,
      \* Smith_1998.pdf
      <<"S", "m", "i", "t", "h", "_", "1", "9", "9", "8", ".", "p", "d", "f">>,
      \* de W_2010.pdf
      <<"d", "e", " ", "W", "_", "2", "0", "1", "0", ".", "p", "d", "f">>,
      \* de_W_2010.pdf
      <<"d", "e", "_", "W", "_", "2", "0", "1", "0", ".", "p", "d", "f">>,
      \* Jones_2010.pdf
      <<"J", "o", "n", "e", "s", "_", "2", "0", "1", "0", ".", "p", "d", "f">> }
Dirs == {d \in SUBSET FileMenu : Cardinality(d) <= MaxDirFiles}

Authors ==
    { \* Smith et al.
      <<"S", "m", "i", "t", "h", " ", "e", "t", " ", "a", "l", ".">>,
      \* Smith
      <<"S", "m", "i", "t", "h">>,
      \* W
      <<"W">>,
      \* de W
      <<"d", "e", " ", "W">>,
      \* (empty)
      <<>> }
Texts ==
    { \* (empty)
      <<>>,
      \* (Jones, 2009; de W et al., 2010)
      <<"(", "J", "o", "n", "e", "s", ",", " ", "2", "0", "0", "9", ";", " ", "d", "e", " ", "W", " ", "e", "t", " ", "a", "l", ".", ",", " ", "2", "0", "1", "0", ")">>,
      \* (Jones, 2010)
      <<"(", "J", "o", "n", "e", "s", ",", " ", "2", "0", "1", "0", ")">> }
Queries == {Query(a, y, t) : a \in Authors, y \in {0, 1998, 2010}, t \in Texts}

(***************************************************************************)
(* SpecNorm: normalize_lead_surname applied, and applied to its result.    *)
(***************************************************************************)
InitNorm ==
    /\ author_name \in Names
    /\ author_key = <<>> /\ author_rekey = <<>>
    /\ pc = "input"
    /\ pdf_dir = {} /\ pdf_index = <<>> /\ query = NoQuery /\ result = NoResult
    /\ enriched = Absent /\ legacy = Absent /\ ledger = Absent /\ unmatched = Absent
    /\ counts = ZeroCounts /\ status = "none"
    /\ left = <<>> /\ prev = <<>> /\ right = Absent /\ phase = "idle"
    /\ RestIdle

Normalize ==
    /\ pc = "input"
    /\ author_key' = normalize_lead_surname(author_name)
    /\ pc' = "normalized"
    /\ UNCHANGED <<author_name, author_rekey, pdf_dir, pdf_index, query, result>>
    /\ UNCHANGED ledgerVars
    /\ UNCHANGED restVars

Renormalize ==
    /\ pc = "normalized"
    /\ author_rekey' = normalize_lead_surname(author_key)
    /\ pc' = "renormalized"
    /\ UNCHANGED <<author_name, author_key, pdf_dir, pdf_index, query, result>>
    /\ UNCHANGED ledgerVars
    /\ UNCHANGED restVars

NextNorm == Normalize \/ Renormalize

SpecNorm == InitNorm /\ [][NextNorm]_vars

(***************************************************************************)
(* SpecResolve: a directory indexed, then one citation resolved.           *)
(***************************************************************************)
InitResolve ==
    /\ pdf_dir \in Dirs
    /\ query \in Queries
    /\ pdf_index = <<>> /\ result = NoResult
    /\ pc = "dir"
    /\ author_name = <<>> /\ author_key = <<>> /\ author_rekey = <<>>
    /\ enriched = Absent /\ legacy = Absent /\ ledger = Absent /\ unmatched = Absent
    /\ counts = ZeroCounts /\ status = "none"
    /\ left = <<>> /\ prev = <<>> /\ right = Absent /\ phase = "idle"
    /\ RestIdle

BuildIndex ==
    /\ pc = "dir"
    /\ pdf_index' = build_pdf_index(pdf_dir)
    /\ pc' = "indexed"
    /\ UNCHANGED <<author_name, author_key, author_rekey, pdf_dir, query, result>>
    /\ UNCHANGED ledgerVars
    /\ UNCHANGED restVars

Resolve ==
    /\ pc = "indexed"
    /\ result' = resolve_source_pdf(query.author, query.year, pdf_index, query.citation_text)
    /\ pc' = "resolved"
    /\ UNCHANGED <<author_name, author_key, author_rekey, pdf_dir, pdf_index, query>>
    /\ UNCHANGED ledgerVars
    /\ UNCHANGED restVars

NextResolve == BuildIndex \/ Resolve

SpecResolve == InitResolve /\ [][NextResolve]_vars

(***************************************************************************)
(* Inputs of SpecYear: citation texts made of sub-citations.               *)
(***************************************************************************)
SubCitations ==
    { \* Chirau et al., 2022
      [who |-> <<"C", "h", "i", "r", "a", "u", " ", "e", "t", " ", "a", "l", ".">>,
       year |-> <<"2", "0", "2", "2">>,
       text |-> <<"C", "h", "i", "r", "a", "u", " ", "e", "t", " ", "a", "l", ".", ",", " ", "2", "0", "2", "2">>],
      \* Kanyamuna et al., 2018
      [who |-> <<"K", "a", "n", "y", "a", "m", "u", "n", "a", " ", "e", "t", " ", "a", "l", ".">>,
       year |-> <<"2", "0", "1", "8">>,
       text |-> <<"K", "a", "n", "y", "a", "m", "u", "n", "a", " ", "e", "t", " ", "a", "l", ".", ",", " ", "2", "0", "1", "8">>],
      \* Kanyamuna et al. 2019a
      [who |-> <<"K", "a", "n", "y", "a", "m", "u", "n", "a", " ", "e", "t", " ", "a", "l", ".">>,
       year |-> <<"2", "0", "1", "9", "a">>,
       text |-> <<"K", "a", "n", "y", "a", "m", "u", "n", "a", " ", "e", "t", " ", "a", "l", ".", " ", "2", "0", "1", "9", "a">>],
      \* de Haan, 2020
      [who |-> <<"d", "e", " ", "H", "a", "a", "n">>,
       year |-> <<"2", "0", "2", "0">>,
       text |-> <<"d", "e", " ", "H", "a", "a", "n", ",", " ", "2", "0", "2", "0">>] }
\* "; ".join of the texts of the sub-citations
RECURSIVE JoinSemicolon(_)
JoinSemicolon(parts) ==
    IF parts = <<>> THEN <<>>
    ELSE IF Len(parts) = 1 THEN parts[1].text
    ELSE parts[1].text \o <<";", " ">> \o JoinSemicolon(Tail(parts))
CitationText(parts, wrap) ==
    IF wrap THEN <<"(">> \o JoinSemicolon(parts) \o <<")">> ELSE JoinSemicolon(parts)
CitationAuthors ==
    {p.who : p \in SubCitations} \cup
    { \* Smith
      <<"S", "m", "i", "t", "h">> }
Cites ==
    {[citation_author |-> a, citation_text |-> CitationText(ps, w), citation_year |-> y,
      parts |-> ps] :
        a \in CitationAuthors, w \in BOOLEAN, y \in {<<>>, <<"2", "0", "1", "8">>},
        ps \in SeqsUpTo(SubCitations, MaxSubCitations) \ {<<>>}}

(***************************************************************************)
(* SpecYear: the year of a claim row inferred, then the year to match on.  *)
(***************************************************************************)
InitYear ==
    /\ cite \in Cites
    /\ inferred = <<>> /\ want_year = <<>>
    /\ year_pc = "row"
    /\ enriched = Absent /\ legacy = Absent /\ ledger = Absent /\ unmatched = Absent
    /\ counts = ZeroCounts /\ status = "none"
    /\ left = <<>> /\ prev = <<>> /\ right = Absent /\ phase = "idle"
    /\ author_name = <<>> /\ author_key = <<>> /\ author_rekey = <<>>
    /\ pdf_dir = {} /\ pdf_index = <<>> /\ query = NoQuery /\ result = NoResult /\ pc = "idle"
    /\ ChunkIdle /\ RetrIdle /\ MoreIdle

InferYear ==
    /\ year_pc = "row"
    /\ inferred' = infer_year_for_target_author(cite.citation_author, cite.citation_text)
    /\ year_pc' = "inferred"
    /\ UNCHANGED <<cite, want_year>>
    /\ UNCHANGED <<ledgerVars, mapVars, chunkVars, retrVars, moreVars>>

ResolveYear ==
    /\ year_pc = "inferred"
    /\ \E cit_author \in {StripStr(cite.citation_author)},
          cit_text \in {StripStr(cite.citation_text)},
          cit_year \in {StripStr(cite.citation_year)} :
         \E year \in {infer_year_for_target_author(cit_author, cit_text)} :
            want_year' = WantYear(year, cit_year, cit_text)
    /\ year_pc' = "resolved"
    /\ UNCHANGED <<cite, inferred>>
    /\ UNCHANGED <<ledgerVars, mapVars, chunkVars, retrVars, moreVars>>

NextYear == InferYear \/ ResolveYear

SpecYear == InitYear /\ [][NextYear]_vars

(***************************************************************************)
(* SpecChunk: the pages of one source cut into windows.                    *)
(***************************************************************************)
Words == {"w1", "w2"}
PageNumbers == {1, 3}
\* a page text as re.split(r"\s+", text.strip()) gives it; <<>> is the empty
\* text and <<"">> a text of white space only
PageTexts == SeqsUpTo(Words, MaxPageWords) \cup {<<"">>}
PageMaps == UNION {[ps -> PageTexts] : ps \in SUBSET PageNumbers}
ChunkCfgs ==
    [chunk_words : 1..MaxChunkWords, stride : 1..MaxStride, cross_page : BOOLEAN]

InitChunk ==
    /\ pages \in PageMaps
    /\ chunk_cfg \in ChunkCfgs
    /\ chunks = <<>>
    /\ chunk_pc = "pages"
    /\ enriched = Absent /\ legacy = Absent /\ ledger = Absent /\ unmatched = Absent
    /\ counts = ZeroCounts /\ status = "none"
    /\ left = <<>> /\ prev = <<>> /\ right = Absent /\ phase = "idle"
    /\ author_name = <<>> /\ author_key = <<>> /\ author_rekey = <<>>
    /\ pdf_dir = {} /\ pdf_index = <<>> /\ query = NoQuery /\ result = NoResult /\ pc = "idle"
    /\ YearIdle /\ RetrIdle /\ MoreIdle

Chunk ==
    /\ chunk_pc = "pages"
    /\ chunks' = chunk_pages_to_windows(pages, chunk_cfg.chunk_words, chunk_cfg.stride,
                                        chunk_cfg.cross_page)
    /\ chunk_pc' = "chunked"
    /\ UNCHANGED <<pages, chunk_cfg>>
    /\ UNCHANGED <<ledgerVars, mapVars, yearVars, retrVars, moreVars>>

NextChunk == Chunk

SpecChunk == InitChunk /\ [][NextChunk]_vars

(***************************************************************************)
(* SpecRetrieve: 40_retrieve_candidates.main, one registry row a step.     *)
(***************************************************************************)
\* the text of a.pdf: page 1 gives two windows, page 2 one
APages == (1 :> <<"w1", "w2", "w3">>) @@ (2 :> <<"w4">>)
\* b.pdf has no text file, or an empty one
TextDirs ==
    { ("a.pdf" :> TextFile(TRUE, APages)),
      ("a.pdf" :> TextFile(TRUE, APages)) @@ ("b.pdf" :> NoText) }
Scores == {50, 100}
ScoreMaps == [DOMAIN chunk_pages_to_windows(APages, CHUNK_W, STRIDE, FALSE) -> Scores]

ClaimIds == <<"c1", "c2", "c3", "c4">>
RegistryRow(src, is_quote, stated) ==
    [claim_id |-> "", source_pdf_path |-> src, is_quote |-> is_quote,
     quoted |-> {<<"w2">>}, stated_page |-> stated]
RegistryRows ==
    {RegistryRow("", <<>>, <<>>), RegistryRow("b.pdf", <<"1">>, <<"2">>)} \cup
    {RegistryRow("a.pdf", q, st) :
        q \in {<<>>, <<"T", "r", "u", "e">>},
        st \in {<<>>, <<"p", ".", " ", "2">>, <<"3">>}}
Registries ==
    {NoFile} \cup
    {[exists |-> TRUE,
      rows |-> [i \in DOMAIN rs |-> [rs[i] EXCEPT !.claim_id = ClaimIds[i]]]] :
        rs \in SeqsUpTo(RegistryRows, MaxClaims)}
OffsetRow(src, off) == [source_pdf_path |-> src, logical_minus_pdf_offset |-> off]
OffsetsFiles ==
    {NoFile} \cup
    {[exists |-> TRUE, rows |-> <<OffsetRow(src, off)>>] :
        <<src, off>> \in {<<"a.pdf", 0>>, <<"a.pdf", 1>>, <<"b.pdf", 0>>}}

InitRetrieve ==
    /\ registry \in Registries
    /\ text_dir \in TextDirs
    /\ offsets_file \in OffsetsFiles
    /\ scores \in ScoreMaps
    /\ offsets = <<>> /\ out_lines = <<>> /\ row_no = 0
    /\ retr_pc = "start"
    /\ enriched = Absent /\ legacy = Absent /\ ledger = Absent /\ unmatched = Absent
    /\ counts = ZeroCounts /\ status = "none"
    /\ left = <<>> /\ prev = <<>> /\ right = Absent /\ phase = "idle"
    /\ author_name = <<>> /\ author_key = <<>> /\ author_rekey = <<>>
    /\ pdf_dir = {} /\ pdf_index = <<>> /\ query = NoQuery /\ result = NoResult /\ pc = "idle"
    /\ YearIdle /\ ChunkIdle /\ MoreIdle

\* main without a registry: a message, and return
OpenMissing ==
    /\ retr_pc = "start"
    /\ ~registry.exists
    /\ retr_pc' = "done"
    /\ UNCHANGED <<registry, text_dir, offsets_file, scores, offsets, out_lines, row_no>>
    /\ UNCHANGED <<ledgerVars, mapVars, yearVars, chunkVars, moreVars>>

\* main up to the loop: the offsets read, the output file opened for writing
Open ==
    /\ retr_pc = "start"
    /\ registry.exists
    /\ offsets' = ReadOffsets(offsets_file)
    /\ out_lines' = <<>>
    /\ retr_pc' = "loop"
    /\ UNCHANGED <<registry, text_dir, offsets_file, scores, row_no>>
    /\ UNCHANGED <<ledgerVars, mapVars, yearVars, chunkVars, moreVars>>

\* the loop body for a row without a source path or without a text: continue
SkipRow ==
    /\ retr_pc = "loop"
    /\ row_no < Len(registry.rows)
    /\ \E row \in {registry.rows[row_no + 1]} :
         ~load_source_text(row.source_pdf_path, text_dir).nonempty
    /\ row_no' = row_no + 1
    /\ UNCHANGED <<registry, text_dir, offsets_file, scores, offsets, out_lines, retr_pc>>
    /\ UNCHANGED <<ledgerVars, mapVars, yearVars, chunkVars, moreVars>>

\* the loop body for a row with a text: one payload written
ProcessRow ==
    /\ retr_pc = "loop"
    /\ row_no < Len(registry.rows)
    /\ \E row \in {registry.rows[row_no + 1]} :
       \E txt \in {load_source_text(row.source_pdf_path, text_dir)} :
         /\ txt.nonempty
         /\ \E ev \in {Evidence(row, txt.pages, offsets, scores)} :
              out_lines' = Append(out_lines,
                  [claim_id |-> row.claim_id, source_pdf_path |-> row.source_pdf_path,
                   evidence |-> ev])
    /\ row_no' = row_no + 1
    /\ UNCHANGED <<registry, text_dir, offsets_file, scores, offsets, retr_pc>>
    /\ UNCHANGED <<ledgerVars, mapVars, yearVars, chunkVars, moreVars>>

\* the end of the loop
Finish ==
    /\ retr_pc = "loop"
    /\ row_no = Len(registry.rows)
    /\ retr_pc' = "done"
    /\ UNCHANGED <<registry, text_dir, offsets_file, scores, offsets, out_lines, row_no>>
    /\ UNCHANGED <<ledgerVars, mapVars, yearVars, chunkVars, moreVars>>

NextRetrieve == OpenMissing \/ Open \/ SkipRow \/ ProcessRow \/ Finish

SpecRetrieve == InitRetrieve /\ [][NextRetrieve]_vars

(***************************************************************************)
(* scripts/30_infer_page_offsets.py                                        *)
(***************************************************************************)
FALSEY == {<<"0">>, <<"f", "a", "l", "s", "e">>, <<"f">>, <<"n">>, <<"n", "o">>, <<>>}
\* as_bool of 30_infer_page_offsets, of a string
as_bool_30(val) ==
    LET s == LowerStr(StripStr(val))
    IN  IF s \in TRUEY THEN TRUE
        ELSE IF s \in FALSEY THEN FALSE
        ELSE Len(s) > 0

NoInt == -1
\* parse_first_int: NoInt for None
parse_first_int(s) == IF s = <<>> THEN NoInt ELSE StatedNumber(s)

NoPage == 0
\* find_quote_page: the first page of the dict that contains the quote
find_quote_page(pgs, quote) ==
    LET hits == {pno \in DOMAIN pgs : Contains(pgs[pno], quote)}
    IN  IF quote = <<>> \/ hits = {} THEN NoPage ELSE Min(hits)

\* sorted(seq)
RECURSIVE Insert(_, _)
Insert(x, arr) ==
    IF arr = <<>> THEN <<x>>
    ELSE IF x <= Head(arr) THEN <<x>> \o arr
    ELSE <<Head(arr)>> \o Insert(x, Tail(arr))
RECURSIVE Sorted(_)
Sorted(seq) == IF seq = <<>> THEN <<>> ELSE Insert(Head(seq), Sorted(Tail(seq)))

\* a // b of Python rounds toward minus infinity, as \div does; TruncDiv is
\* the quotient that rounds toward zero
TruncDiv(a, b) == IF a >= 0 THEN a \div b ELSE -((-a) \div b)
FloorDiv(a, b) == a \div b

NoMedian == [none |-> TRUE, value |-> 0]
\* median_int
median_int(seq) ==
    LET arr == Sorted(seq)
        n == Len(arr)
        mid == n \div 2
    IN  IF n = 0 THEN NoMedian
        ELSE IF n % 2 = 1 THEN [none |-> FALSE, value |-> arr[mid + 1]]
        ELSE [none |-> FALSE, value |-> FloorDiv(arr[mid] + arr[mid + 1], 2)]

\* the page of the first quote of the row that is found, NoPage if none is
RECURSIVE FoundPage(_, _)
FoundPage(pgs, quotes) ==
    IF quotes = <<>> THEN NoPage
    ELSE IF find_quote_page(pgs, Head(quotes)) # NoPage
         THEN find_quote_page(pgs, Head(quotes))
    ELSE FoundPage(pgs, Tail(quotes))

\* offsets_for_pdf of main: the instance offsets of the rows g of a source
RECURSIVE offsets_for_pdf(_, _)
offsets_for_pdf(pgs, g) ==
    IF g = <<>> THEN <<>>
    ELSE LET r == Head(g)
             found_page == FoundPage(pgs, r.quotes)
             stated == parse_first_int(r.stated_page)
         IN  (IF r.quotes = <<>> \/ found_page = NoPage \/ stated = NoInt
              THEN <<>> ELSE <<stated - found_page>>)
             \o offsets_for_pdf(pgs, Tail(g))

\* the rows main keeps: quotes with a stated page
KeptRows(rows) ==
    SelectSeq(rows, LAMBDA r : as_bool_30(r.is_quote) /\ Len(r.stated_page) > 0)
\* df.groupby("source_pdf_path"): the group of a source
Group(rows, src) == SelectSeq(rows, LAMBDA r : r.source_pdf_path = src)

\* rows_out of main for the sources srcs (in groupby order) and the texts dir
RECURSIVE RowsOut(_, _, _)
RowsOut(rows, srcs, dir) ==
    IF srcs = <<>> THEN <<>>
    ELSE LET pdf_path == Head(srcs)
             g == Group(rows, pdf_path)
             offs == IF pdf_path \in DOMAIN dir
                     THEN offsets_for_pdf(dir[pdf_path].pages, g) ELSE <<>>
             med == median_int(offs)
         IN  (IF g = <<>> \/ pdf_path = "" \/ pdf_path \notin DOMAIN dir
                 \/ med.none
              THEN <<>>
              ELSE <<[source_pdf_path |-> pdf_path,
                      logical_minus_pdf_offset |-> med.value,
                      n_examples |-> Len(offs)]>>)
             \o RowsOut(rows, Tail(srcs), dir)

(***************************************************************************)
(* SpecOffsets: runs of 30_infer_page_offsets.main; between two runs a row *)
(* of the registry may be withdrawn.                                       *)
(***************************************************************************)
MaxQuoteRows == 4
\* the texts: a.pdf and c.pdf have one, b.pdf has none
OffsetTexts ==
    ("a.pdf" :> TextFile(TRUE, (1 :> <<"q1">>) @@ (4 :> <<"q4", "q1">>))) @@
    ("c.pdf" :> TextFile(TRUE, (1 :> <<"q1">>)))
\* the sources in the order of groupby
OffsetSources30 == <<"a.pdf", "b.pdf", "c.pdf">>
QuoteRow(src, is_quote, stated, quotes) ==
    [source_pdf_path |-> src, is_quote |-> is_quote, stated_page |-> stated,
     quotes |-> quotes]
QuoteRows ==
    {QuoteRow("a.pdf", <<"T", "r", "u", "e">>, st, <<q>>) :
        st \in {<<"2">>, <<"p", ".", " ", "5">>}, q \in {<<"q1">>, <<"q4">>}} \cup
    {QuoteRow("a.pdf", <<"F", "a", "l", "s", "e">>, <<"2">>, <<<<"q1">>>>),
     QuoteRow("a.pdf", <<"T", "r", "u", "e">>, <<"2">>, <<<<"q9">>, <<"q4">>>>),
     QuoteRow("b.pdf", <<"T", "r", "u", "e">>, <<"2">>, <<<<"q1">>>>),
     QuoteRow("c.pdf", <<"y", "e", "s">>, <<"3">>, <<<<"q1">>>>)}
QuoteRegistries ==
    {NoFile} \cup {[exists |-> TRUE, rows |-> rs] : rs \in SeqsUpTo(QuoteRows, MaxQuoteRows)}

InitOffsets ==
    /\ reg_df \in QuoteRegistries
    /\ page_offsets = NoFile
    /\ rows_out = <<>>
    /\ offs_pc = "idle"
    /\ enriched = Absent /\ legacy = Absent /\ ledger = Absent /\ unmatched = Absent
    /\ counts = ZeroCounts /\ status = "none"
    /\ left = <<>> /\ prev = <<>> /\ right = Absent /\ phase = "idle"
    /\ author_name = <<>> /\ author_key = <<>> /\ author_rekey = <<>>
    /\ pdf_dir = {} /\ pdf_index = <<>> /\ query = NoQuery /\ result = NoResult /\ pc = "idle"
    /\ YearIdle /\ ChunkIdle /\ RetrIdle /\ SectIdle /\ TextIdle

\* main without a registry: a message, nothing written
InferMissing ==
    /\ offs_pc = "idle"
    /\ ~reg_df.exists
    /\ offs_pc' = "done"
    /\ UNCHANGED <<reg_df, page_offsets, rows_out>>
    /\ UNCHANGED <<ledgerVars, mapVars, yearVars, chunkVars, retrVars, sectVars, textVars>>

\* main: the offsets file is written only when there is a row to write
InferOffsets ==
    /\ offs_pc = "idle"
    /\ reg_df.exists
    /\ \E out \in {RowsOut(KeptRows(reg_df.rows), OffsetSources30, OffsetTexts)} :
          /\ rows_out' = out
          /\ page_offsets' = IF out # <<>> THEN [exists |-> TRUE, rows |-> out]
                             ELSE page_offsets
    /\ offs_pc' = "done"
    /\ UNCHANGED reg_df
    /\ UNCHANGED <<ledgerVars, mapVars, yearVars, chunkVars, retrVars, sectVars, textVars>>

\* a row leaves the registry before the next run
WithdrawRow ==
    /\ offs_pc = "done"
    /\ reg_df.exists
    /\ \E i \in DOMAIN reg_df.rows :
          reg_df' = [reg_df EXCEPT !.rows =
                        SubSeq(reg_df.rows, 1, i - 1) \o
                        SubSeq(reg_df.rows, i + 1, Len(reg_df.rows))]
    /\ offs_pc' = "idle"
    /\ rows_out' = <<>>
    /\ UNCHANGED page_offsets
    /\ UNCHANGED <<ledgerVars, mapVars, yearVars, chunkVars, retrVars, sectVars, textVars>>

NextOffsets == InferMissing \/ InferOffsets \/ WithdrawRow

SpecOffsets == InitOffsets /\ [][NextOffsets]_vars

(***************************************************************************)
(* src/audit_lib/enrich/section_scoring.py                                 *)
(*                                                                         *)
(* A title is the sequence of its lower-case words and a body the set of   *)
(* its tokens.  The TF-IDF cosine of the claim and a body is an input: it  *)
(* is a whole number of steps of 1/MaxSim, positive exactly when the claim *)
(* and the body share a token (all TF-IDF weights are positive).  Scores   *)
(* are in units of 1/(MaxSim * 100 * 100).                                 *)
(***************************************************************************)
\* HEADING_PENALTY_PATTERNS on the words of a title
HeadingPenaltyMatch(title) ==
    \/ \E i \in 1..(Len(title) - 1) : title[i] = "executive" /\ title[i + 1] = "summary"
    \/ \E i \in DOMAIN title : title[i] \in {"abstract", "overview"}
\* heading_penalty_factor in hundredths, and a factor that penalizes nothing
heading_penalty_none(title) == 100
heading_penalty_factor(title) == IF HeadingPenaltyMatch(title) THEN 60 ELSE 100
\* level_boost in hundredths
level_boost(level) ==
    IF level = 4 THEN 115 ELSE IF level = 3 THEN 110 ELSE IF level = 1 THEN 90 ELSE 100

\* sim of the first loop for a section
SectionScore(s, sims) ==
    sims[s.body] * heading_penalty_factor(s.title) * level_boost(s.level)
\* score of the second loop: the claim tokens among the title's words,
\* weighted; TitleOverlap is the bare count
TitleOverlap(s, toks) == Cardinality(toks \cap Range(s.title))
TitleScore(s, toks) ==
    Cardinality(toks \cap Range(s.title)) * heading_penalty_factor(s.title)
        * level_boost(s.level)

\* a loop of best_section_for_claim over the scores sc: (best_score, index)
\* after the sections k..Len(sc), starting from (score, idx)
RECURSIVE BestFrom(_, _, _, _)
BestFrom(sc, k, score, idx) ==
    IF k > Len(sc) THEN [score |-> score, idx |-> idx]
    ELSE IF sc[k] > score THEN BestFrom(sc, k + 1, sc[k], k)
    ELSE BestFrom(sc, k + 1, score, idx)

BestOf(secs, idx) ==
    IF idx = 0 THEN NoBest
    ELSE [title |-> secs[idx].title, level |-> secs[idx].level, idx |-> idx]
\* best_section_for_claim
best_section_for_claim(toks, secs, sims) ==
    LET first == BestFrom([k \in DOMAIN secs |-> SectionScore(secs[k], sims)], 1, -1, 0)
        second == BestFrom([k \in DOMAIN secs |-> TitleScore(secs[k], toks)], 1, -1, 0)
    IN  IF first.score <= 0 THEN BestOf(secs, second.idx) ELSE BestOf(secs, first.idx)

(***************************************************************************)
(* SpecSection: one call of best_section_for_claim.                        *)
(***************************************************************************)
MaxSections == 2
MaxSim == 2
Titles == {<<"executive", "summary">>, <<"abstract">>, <<"overview">>, <<"methods">>}
Bodies == {{"x"}, {"x", "y"}, {"z"}}
Levels == {2, 3}
SectionSet == [title : Titles, body : Bodies, level : Levels]
ClaimTokens == {{"x"}, {"x", "methods"}, {"overview", "methods"}}
\* the cosines a claim can have with the bodies
Sims(toks) ==
    {f \in [Bodies -> 0..MaxSim] : \A b \in Bodies : (f[b] > 0) <=> (toks \cap b # {})}

InitSection ==
    /\ sections \in SeqsUpTo(SectionSet, MaxSections)
    /\ claim_toks \in ClaimTokens
    /\ body_sim \in Sims(claim_toks)
    /\ best_sec = NoBest
    /\ sect_pc = "call"
    /\ enriched = Absent /\ legacy = Absent /\ ledger = Absent /\ unmatched = Absent
    /\ counts = ZeroCounts /\ status = "none"
    /\ left = <<>> /\ prev = <<>> /\ right = Absent /\ phase = "idle"
    /\ author_name = <<>> /\ author_key = <<>> /\ author_rekey = <<>>
    /\ pdf_dir = {} /\ pdf_index = <<>> /\ query = NoQuery /\ result = NoResult /\ pc = "idle"
    /\ YearIdle /\ ChunkIdle /\ RetrIdle /\ OffsIdle /\ TextIdle

BestSection ==
    /\ sect_pc = "call"
    /\ best_sec' = best_section_for_claim(claim_toks, sections, body_sim)
    /\ sect_pc' = "returned"
    /\ UNCHANGED <<sections, claim_toks, body_sim>>
    /\ UNCHANGED <<ledgerVars, mapVars, yearVars, chunkVars, retrVars, offsVars, textVars>>

NextSection == BestSection

SpecSection == InitSection /\ [][NextSection]_vars

(***************************************************************************)
(* src/audit_lib/citations.py                                              *)
(*                                                                         *)
(* A sentence is the sequence of its segments, each what one of the        *)
(* patterns of the module matches or plain words:                          *)
(*   text     words that no pattern matches                                *)
(*   narr     Author (year), a match of NARR_RE                            *)
(*   paren    (Author, year; ...), a match of PAREN_BLOCK_RE with the      *)
(*            PAIR_RE pairs of the block and, when host is not NoHost, an  *)
(*            "as cited in Host, year" in the block                        *)
(*   ascited  "as cited in Host, year" in the running text                 *)
(* The span of a match is the position of its segment.  citation_text and  *)
(* stated_page of the items are not modelled.                              *)
(***************************************************************************)
None == "None"
NoHost == [author |-> None, year |-> None]
Pair(author, year) == [author |-> author, year |-> year]
TextSeg == [kind |-> "text", pairs |-> <<>>, host |-> NoHost]
NarrSeg(p) == [kind |-> "narr", pairs |-> <<p>>, host |-> NoHost]
ParenSeg(ps, host) == [kind |-> "paren", pairs |-> ps, host |-> host]
AsCitedSeg(host) == [kind |-> "ascited", pairs |-> <<>>, host |-> host]

\* an item of the lists the extractors return
Citation(type, who, secondary, primary, span) ==
    [citation_type |-> type, author |-> who.author, year |-> who.year,
     is_secondary |-> secondary,
     primary_mentioned_author |-> primary.author,
     primary_mentioned_year |-> primary.year,
     span |-> span]

\* _extract_parenthetical_pairs: a block with an "as cited in" gives one item
\* for the host, another block one item for each of its pairs; the "(year)"
\* of a narrative citation is a block without a pair
_extract_parenthetical_pairs(sent) ==
    Flatten([k \in DOMAIN sent |->
        IF sent[k].kind = "paren" /\ sent[k].host # NoHost
        THEN <<Citation("secondary_parenthetical", sent[k].host, TRUE, NoHost, k)>>
        ELSE IF sent[k].kind = "paren"
        THEN [j \in DOMAIN sent[k].pairs |->
                Citation("parenthetical", sent[k].pairs[j], FALSE, NoHost, k)]
        ELSE <<>>])

\* AS_CITED_IN_RE.search(sentence[m.end():]): the host of the first "as cited
\* in" after segment k, in the running text or in a block, NoHost without one
TailAsCited(sent, k) ==
    LET after == {j \in (k + 1)..Len(sent) : sent[j].host # NoHost}
    IN  IF after = {} THEN NoHost
        ELSE sent[CHOOSE j \in after : \A i \in after : j <= i].host

\* _extract_narrative_pairs
_extract_narrative_pairs(sent) ==
    Flatten([k \in DOMAIN sent |->
        IF sent[k].kind # "narr" THEN <<>>
        ELSE IF TailAsCited(sent, k) # NoHost
        THEN <<Citation("secondary_narrative", TailAsCited(sent, k), TRUE,
                        sent[k].pairs[1], k)>>
        ELSE <<Citation("narrative", sent[k].pairs[1], FALSE, NoHost, k)>>])

\* the key of the de-duplication
CitationKey(item) == <<item.author, item.year, item.citation_type, item.span>>
\* the loop of parse_citations: the items whose key no earlier item has
RECURSIVE Unseen(_, _)
Unseen(items, seen) ==
    IF items = <<>> THEN <<>>
    ELSE IF CitationKey(Head(items)) \in seen THEN Unseen(Tail(items), seen)
    ELSE <<Head(items)>> \o Unseen(Tail(items), seen \cup {CitationKey(Head(items))})

\* parse_citations, and a variant that returns every item found
parse_citations_all(sent) ==
    _extract_parenthetical_pairs(sent) \o _extract_narrative_pairs(sent)
parse_citations(sent) ==
    Unseen(_extract_parenthetical_pairs(sent) \o _extract_narrative_pairs(sent), {})

(***************************************************************************)
(* SpecCite: one call of parse_citations.                                  *)
(***************************************************************************)
MaxSegments == 3
Smith2020 == Pair("Smith", "2020")
Jones2018 == Pair("Jones", "2018")
Brown2019 == Pair("Brown", "2019")
SegmentMenu ==
    { TextSeg,                                   \* says so
      NarrSeg(Smith2020),                        \* Smith (2020)
      NarrSeg(Jones2018),                        \* Jones (2018)
      AsCitedSeg(Brown2019),                     \* , as cited in Brown, 2019,
      ParenSeg(<<Brown2019>>, NoHost),           \* (Brown, 2019)
      ParenSeg(<<Brown2019, Brown2019>>, NoHost),    \* (Brown, 2019; Brown, 2019)
      ParenSeg(<<Jones2018, Brown2019>>, NoHost),    \* (Jones, 2018; Brown, 2019)
      ParenSeg(<<Jones2018>>, Brown2019) }       \* (Jones, 2018, as cited in Brown, 2019)
Sentences == SeqsUpTo(SegmentMenu, MaxSegments)

\* the variables of the specifications above at rest
CoreIdle ==
    /\ enriched = Absent /\ legacy = Absent /\ ledger = Absent /\ unmatched = Absent
    /\ counts = ZeroCounts /\ status = "none"
    /\ left = <<>> /\ prev = <<>> /\ right = Absent /\ phase = "idle"
    /\ author_name = <<>> /\ author_key = <<>> /\ author_rekey = <<>>
    /\ pdf_dir = {} /\ pdf_index = <<>> /\ query = NoQuery /\ result = NoResult /\ pc = "idle"
    /\ YearIdle /\ ChunkIdle /\ RetrIdle /\ OffsIdle /\ SectIdle

InitCite ==
    /\ sentence \in Sentences
    /\ citations = <<>>
    /\ cite_pc = "sentence"
    /\ CoreIdle /\ SplitIdle /\ TieIdle

Parse ==
    /\ cite_pc = "sentence"
    /\ citations' = parse_citations(sentence)
    /\ cite_pc' = "parsed"
    /\ UNCHANGED sentence
    /\ UNCHANGED <<coreVars, splitVars, tieVars>>

NextCite == Parse

SpecCite == InitCite /\ [][NextCite]_vars

(***************************************************************************)
(* src/audit_lib/pdf_utils.py                                              *)
(*                                                                         *)
(* A text is a sequence of characters; a run of characters of the form     *)
(* <<<PAGE=n>>> is one element, the marker of page n.                      *)
(***************************************************************************)
MarkerSeq == <<"<<<PAGE=1>>>", "<<<PAGE=2>>>", "<<<PAGE=3>>>", "<<<PAGE=4>>>",
               "<<<PAGE=5>>>", "<<<PAGE=6>>>", "<<<PAGE=7>>>", "<<<PAGE=8>>>",
               "<<<PAGE=9>>>">>
Marker(n) == MarkerSeq[n]
IsMarker(ch) == \E n \in DOMAIN MarkerSeq : MarkerSeq[n] = ch
MarkerNumber(ch) == CHOOSE n \in DOMAIN MarkerSeq : MarkerSeq[n] = ch
LineEnds == {"\n", "\r"}

\* str.strip()
RECURSIVE StripWhite(_)
StripWhite(t) ==
    IF t # <<>> /\ Head(t) \in LineEnds \cup {" "} THEN StripWhite(Tail(t))
    ELSE IF t # <<>> /\ t[Len(t)] \in LineEnds \cup {" "}
    THEN StripWhite(SubSeq(t, 1, Len(t) - 1))
    ELSE t

\* str.splitlines(): a line ends at \n, \r or \r\n, and what follows the last
\* line end is a line when it is not empty
RECURSIVE SplitLines(_, _)
SplitLines(t, cur) ==
    IF t = <<>> THEN (IF cur = <<>> THEN <<>> ELSE <<cur>>)
    ELSE IF Head(t) = "\r" /\ Len(t) >= 2 /\ t[2] = "\n"
    THEN <<cur>> \o SplitLines(Tail(Tail(t)), <<>>)
    ELSE IF Head(t) \in LineEnds THEN <<cur>> \o SplitLines(Tail(t), <<>>)
    ELSE SplitLines(Tail(t), Append(cur, Head(t)))

\* "\n".join(lines)
RECURSIVE JoinLines(_)
JoinLines(lines) ==
    IF lines = <<>> THEN <<>>
    ELSE IF Len(lines) = 1 THEN lines[1]
    ELSE lines[1] \o <<"\n">> \o JoinLines(Tail(lines))

\* pdf_to_text_with_page_markers, from the text extracted for each page
pdf_to_text_with_page_markers(texts) ==
    JoinLines(Flatten([i \in DOMAIN texts |-> <<<<Marker(i)>>, StripWhite(texts[i])>>]))

\* line.startswith("<<<PAGE=") and line.endswith(">>>")
IsMarkerLine(line) == line # <<>> /\ IsMarker(Head(line)) /\ IsMarker(line[Len(line)])
\* int(line.replace("<<<PAGE=", "").replace(">>>", "")): the number, or -1
\* when int raises ValueError
RECURSIVE PageNumber(_, _)
PageNumber(line, n) ==
    IF line = <<>> THEN n
    ELSE IF ~IsMarker(Head(line)) THEN -1
    ELSE PageNumber(Tail(line), 10 * n + MarkerNumber(Head(line)))

\* the loop of split_pages over the lines left; current is 0 for None
RECURSIVE SplitLoop(_, _, _, _)
SplitLoop(lines, pgs, current, buf) ==
    IF lines = <<>>
    THEN [raised |-> FALSE,
          pages |-> IF current # 0
                    THEN (current :> StripWhite(JoinLines(buf))) @@ pgs ELSE pgs]
    ELSE IF IsMarkerLine(Head(lines))
    THEN IF PageNumber(Head(lines), 0) = -1 THEN [raised |-> TRUE, pages |-> <<>>]
         ELSE IF current # 0
         THEN SplitLoop(Tail(lines), (current :> StripWhite(JoinLines(buf))) @@ pgs,
                        PageNumber(Head(lines), 0), <<>>)
         ELSE SplitLoop(Tail(lines), pgs, PageNumber(Head(lines), 0), buf)
    ELSE SplitLoop(Tail(lines), pgs, current, Append(buf, Head(lines)))
\* split_pages
split_pages(t) == SplitLoop(SplitLines(t, <<>>), <<>>, 0, <<>>)

(***************************************************************************)
(* SpecSplit: a PDF's page texts written with markers, then split.         *)
(***************************************************************************)
MaxPdfPages == 2
TextMenu ==
    { <<>>,
      <<"a">>,
      <<" ", "a">>,
      <<"a", "\n", "b">>,
      <<"a", "\n", "\n", "b">>,
      <<"a", "\r", "b">>,
      <<"a", "\n", Marker(2), "\n", "b">>,
      <<Marker(2), "a", Marker(2)>> }

InitSplit ==
    /\ page_texts \in SeqsUpTo(TextMenu, MaxPdfPages)
    /\ marked = <<>> /\ split_out = <<>>
    /\ split_pc = "pdf"
    /\ CoreIdle /\ CiteIdle /\ TieIdle

WriteMarked ==
    /\ split_pc = "pdf"
    /\ marked' = pdf_to_text_with_page_markers(page_texts)
    /\ split_pc' = "text"
    /\ UNCHANGED <<page_texts, split_out>>
    /\ UNCHANGED <<coreVars, citeVars, tieVars>>

SplitPages ==
    /\ split_pc = "text"
    /\ split_out' = split_pages(marked)
    /\ split_pc' = "split"
    /\ UNCHANGED <<page_texts, marked>>
    /\ UNCHANGED <<coreVars, citeVars, tieVars>>

NextSplit == WriteMarked \/ SplitPages

SpecSplit == InitSplit /\ [][NextSplit]_vars

(***************************************************************************)
(* SpecTie: the PDF directory listed by glob in one order and in another,  *)
(* the index built and the ties broken each time.                          *)
(***************************************************************************)
\* sorted(pdf_dir.glob("*.pdf")) of build_pdf_index: the paths that glob
\* yields in some order, sorted; GlobPaths leaves them as glob yields them
RECURSIVE InsertPath(_, _)
InsertPath(sorted, p) ==
    IF sorted = <<>> THEN <<p>>
    ELSE IF StrLess(p, Head(sorted)) THEN <<p>> \o sorted
    ELSE <<Head(sorted)>> \o InsertPath(Tail(sorted), p)
GlobPaths(listing) == listing
RECURSIVE SortedPaths(_)
SortedPaths(listing) ==
    IF listing = <<>> THEN <<>>
    ELSE InsertPath(SortedPaths(Tail(listing)), Head(listing))
\* build_pdf_index on a directory that glob lists as listing
build_pdf_index_listed(listing) ==
    LET names == SelectSeq(SortedPaths(listing),
                           LAMBDA n : EndsWith(n, DotPdf) /\ BasenameSplit(n) # 0)
    IN  [k \in {FileKey(n) : n \in Range(names)} |->
            SelectSeq(names, LAMBDA n : FileKey(n) = k)]
\* the file _tie_break chooses for every key of the index with several files
TieChoices(listing) ==
    LET index == build_pdf_index_listed(listing)
    IN  [listing |-> listing,
         chosen |-> [k \in {h \in DOMAIN index : Len(index[h]) > 1} |->
                        _tie_break(k[1], k[2], index[k])]]

Listings == {l \in SeqsUpTo(FileMenu, MaxDirFiles) : \A i, j \in DOMAIN l : l[i] = l[j] => i = j}
Relistings(l) == {m \in [DOMAIN l -> Range(l)] : Range(m) = Range(l)}

InitTie ==
    /\ glob_order \in Listings
    /\ tie_first = <<>> /\ tie_last = <<>>
    /\ tie_pc = "listed"
    /\ CoreIdle /\ CiteIdle /\ SplitIdle

\* the index built and the ties broken on the first listing
ChooseFirst ==
    /\ tie_pc = "listed"
    /\ tie_first' = TieChoices(glob_order)
    /\ tie_last' = TieChoices(glob_order).chosen
    /\ tie_pc' = "chosen"
    /\ UNCHANGED glob_order
    /\ UNCHANGED <<coreVars, citeVars, splitVars>>

\* glob yields the same files in another order
Relist ==
    /\ tie_pc \in {"chosen", "rechosen"}
    /\ glob_order' \in Relistings(glob_order)
    /\ tie_pc' = "relisted"
    /\ UNCHANGED <<tie_first, tie_last>>
    /\ UNCHANGED <<coreVars, citeVars, splitVars>>

\* the index built and the ties broken again
ChooseAgain ==
    /\ tie_pc = "relisted"
    /\ tie_last' = TieChoices(glob_order).chosen
    /\ tie_pc' = "rechosen"
    /\ UNCHANGED <<glob_order, tie_first>>
    /\ UNCHANGED <<coreVars, citeVars, splitVars>>

NextTie == ChooseFirst \/ Relist \/ ChooseAgain

SpecTie == InitTie /\ [][NextTie]_vars

(***************************************************************************)
(* Claims on the ledger (Spec, SpecMerge).                                 *)
(***************************************************************************)
LedgerFields == Range(DECISION_COLS) \cup Range(REWRITE_COLS)
KeysOf(rows) == [i \in DOMAIN rows |-> KeyOf(rows[i], ON_COLS)]
Merged == phase \in {"merged", "merged2", "remerged"}
\* the source of the last pass as main hands it to merge_fill
RightFrame == _ensure_columns(_read_csv(right), BASE_COLS \o DECISION_COLS)
\* the first row of the last source with the key k, 0 when there is none
FirstWithKey(k) ==
    IF \E j \in DOMAIN RightFrame.rows : KeyOf(RightFrame.rows[j], ON_COLS) = k
    THEN CHOOSE j \in DOMAIN RightFrame.rows :
            /\ KeyOf(RightFrame.rows[j], ON_COLS) = k
            /\ \A h \in 1..(j - 1) : KeyOf(RightFrame.rows[h], ON_COLS) # k
    ELSE 0

\* C1: over successive runs of 50_adjudicate and 52_propose_rewrites on an
\* unchanged scaffold, a decision or rewrite field of a ledger row that is
\* non-blank after one run is not blank after the next run.
C1_NonBlankNeverReset ==
    [][ (ledger.exists /\ ledger'.exists) =>
          \A i \in DOMAIN ledger.rows \cap DOMAIN ledger'.rows :
             \A c \in LedgerFields :
                ledger.rows[i][c] # "" => ledger'.rows[i][c] # "" ]_vars

\* C2: after the scaffold pass and any merge-fill passes the frame has the
\* scaffold's keys, as many and in the same order, and every source key that
\* the scaffold lacks is in the unmatched-keys diagnostic, the run going on.
C2_RowsEqualScaffold ==
    phase \in {"scaffolded", "merged", "merged2", "remerged", "rerun"} =>
        /\ KeysOf(left) = KeysOf(_read_csv(enriched).rows)
        /\ (Merged /\ ~IsEmpty(_read_csv(right))) =>
              \A j \in DOMAIN RightFrame.rows :
                 (\A i \in DOMAIN left :
                     KeyOf(left[i], ON_COLS) # KeyOf(RightFrame.rows[j], ON_COLS))
                 => /\ unmatched.exists
                    /\ KeyOf(RightFrame.rows[j], ON_COLS) \in Range(unmatched.rows)
        /\ status # "fatal"
C2_Witness ==
    /\ phase = "merged2"
    /\ Len(left) >= 2
    /\ \E j1, j2 \in DOMAIN right.rows :
          /\ j1 < j2
          /\ KeyOf(right.rows[j1], ON_COLS) = KeyOf(right.rows[j2], ON_COLS)
          /\ \E i \in DOMAIN left : KeyOf(left[i], ON_COLS) = KeyOf(right.rows[j1], ON_COLS)
    /\ unmatched.exists
    /\ \E k \in Range(unmatched.rows) : \A i \in DOMAIN left : KeyOf(left[i], ON_COLS) # k

\* C3: a merge-fill pass leaves every decision field that was non-blank
\* before the pass at its value, whatever the source offers for that key.
C3_FillOnlyBlanks ==
    Merged =>
        \A i \in DOMAIN prev \cap DOMAIN left :
           \A c \in Range(DECISION_COLS) :
              prev[i][c] # "" => left[i][c] = prev[i][c]
C3_Witness ==
    /\ Merged
    /\ \E i \in DOMAIN prev, c \in Range(DECISION_COLS) :
          LET f == FirstWithKey(KeyOf(prev[i], ON_COLS))
          IN  /\ prev[i][c] # ""
              /\ f # 0
              /\ RightFrame.rows[f][c] # ""
              /\ RightFrame.rows[f][c] # prev[i][c]
              /\ left[i][c] = prev[i][c]

\* C4: merging the same source a second time leaves the frame as the first
\* merge left it and reports 0 for every field; the whole run replayed on the
\* same inputs gives the same frame.
C4_SecondMergeNoOp ==
    /\ phase = "remerged" =>
          /\ left = prev
          /\ ~IsEmpty(_read_csv(right)) => counts = ZeroCounts
    /\ phase = "rerun" => left = prev
C4_Witness ==
    /\ phase = "remerged"
    /\ \E i \in DOMAIN left : left[i]["verdict"] # "" /\ left[i]["rationale"] = ""
    /\ \E i \in DOMAIN left : left[i]["verdict"] = ""
    /\ counts = ZeroCounts

\* C5: the frame never has two rows with the same claim key, whatever the
\* scaffold input, one with a key on several rows included.
C5_OneRowPerKey ==
    \A i, j \in DOMAIN left :
        KeyOf(left[i], ON_COLS) = KeyOf(left[j], ON_COLS) => i = j

\* C6: of the source rows with one claim key the merge uses the first alone:
\* a field the pass changes takes the first row's value, and a field that is
\* blank in the first row stays as it was, whatever later rows hold.
C6_FirstOccurrenceWins ==
    Merged =>
        \A i \in DOMAIN prev \cap DOMAIN left :
           \A c \in Range(DECISION_COLS) :
              LET f == FirstWithKey(KeyOf(prev[i], ON_COLS))
              IN  /\ left[i][c] # prev[i][c] => (f # 0 /\ left[i][c] = RightFrame.rows[f][c])
                  /\ (f # 0 /\ RightFrame.rows[f][c] = "") => left[i][c] = prev[i][c]
C6_Witness ==
    /\ phase = "merged"
    /\ \E i \in DOMAIN prev, c \in Range(DECISION_COLS) :
          LET f == FirstWithKey(KeyOf(prev[i], ON_COLS))
          IN  /\ f # 0
              /\ RightFrame.rows[f][c] = ""
              /\ \E j \in DOMAIN RightFrame.rows :
                    /\ j > f
                    /\ KeyOf(RightFrame.rows[j], ON_COLS) = KeyOf(prev[i], ON_COLS)
                    /\ RightFrame.rows[j][c] # ""
              /\ prev[i][c] = ""
              /\ left[i][c] = ""

(***************************************************************************)
(* Claims on the reference matching (SpecNorm, SpecResolve).               *)
(***************************************************************************)
\* C7: normalize_lead_surname returns a key for every name, the key of a key
\* is that key, and the key of the empty name is the empty key.
C7_NormalizeIdempotent ==
    /\ normalize_lead_surname(<<>>) = <<>>
    /\ pc = "renormalized" => author_rekey = author_key

\* the keys of the query, and the files of the directory under a key and year
SurnameKey == normalize_lead_surname(query.author)
AltKey ==
    IF query.citation_text = <<>> \/ query.year = 0 THEN <<>>
    ELSE _author_key_from_text_fragment(query.citation_text, query.year)
Indexed(k, y) ==
    {f \in pdf_dir : EndsWith(f, DotPdf) /\ BasenameSplit(f) # 0 /\ FileKey(f) = <<k, y>>}
OtherYearOnly(k) ==
    /\ Indexed(k, query.year) = {}
    /\ \E f \in pdf_dir :
          EndsWith(f, DotPdf) /\ BasenameSplit(f) # 0 /\ FileKey(f)[1] = k
PathOfRequestedYear ==
    result.path # NoPath =>
        /\ result.path \in pdf_dir
        /\ BasenameSplit(result.path) # 0
        /\ FileKey(result.path)[2] = query.year

\* C8 as stated: a path that resolve_source_pdf returns is a file indexed
\* under the requested year, and when the index has files of the author's key
\* for other years only, the result is no path and no_match.
C8_Original ==
    pc = "resolved" =>
        /\ PathOfRequestedYear
        /\ OtherYearOnly(SurnameKey) =>
              (result.path = NoPath /\ result.reason = "no_match")

\* C8: a path that resolve_source_pdf returns is a file indexed under the
\* requested year, on the direct lookup and on the citation_text fallback;
\* when the index has no file of the requested year under the author's key and
\* none under the alternate key taken from citation_text, the result is no
\* path and no_match.
C8_RequestedYearOnly ==
    pc = "resolved" =>
        /\ PathOfRequestedYear
        /\ (Indexed(SurnameKey, query.year) = {} /\ Indexed(AltKey, query.year) = {}) =>
              (result.path = NoPath /\ result.reason = "no_match")
C8_Witness ==
    /\ pc = "resolved"
    /\ OtherYearOnly(SurnameKey)
    /\ AltKey # <<>> /\ AltKey # SurnameKey
    /\ Indexed(AltKey, query.year) = {}
    /\ pdf_dir # {}
    /\ result.path = NoPath /\ result.reason = "no_match"

\* C9: of several candidates under one (surname key, year), the file chosen
\* is the one named <surname key>_<year>.pdf when there is one, else one of
\* the shortest names, else the smallest of these in lexicographic order, and
\* the result is flagged ambiguous.
C9_TieBreakOrder ==
    (pc = "resolved" /\ Len(result.candidates) > 1) =>
        LET cands == Range(result.candidates)
            shared == FileKey(result.candidates[1])[1]
            literal == LowerStr(shared \o <<"_">> \o IntToStr(query.year) \o DotPdf)
            lit == {c \in cands : LowerStr(c) = literal}
            shortest == {c \in cands : \A d \in cands : Len(c) <= Len(d)}
            smallest == {c \in shortest :
                           \A d \in shortest : ~StrLess(LowerStr(d), LowerStr(c))}
        IN  /\ result.reason = "ambiguous"
            /\ \A c \in cands : FileKey(c) = <<shared, query.year>>
            /\ IF lit # {} THEN result.path \in lit ELSE result.path \in smallest

\* the candidates found under the author's key and the year, after the fallback
Found ==
    IF SurnameKey = <<>> \/ query.year = 0 THEN {}
    ELSE IF Indexed(SurnameKey, query.year) # {} THEN Indexed(SurnameKey, query.year)
    ELSE IF AltKey # <<>> THEN Indexed(AltKey, query.year)
    ELSE {}

\* C10: the result of resolve_source_pdf is one of three, by the candidates
\* found after the fallback: none, no path and no_match; one, that path and no
\* reason; several, one of them and ambiguous.  The path is absent exactly
\* when the reason is no_match, and an empty author key or a missing year
\* gives no_match.
C10_ThreeOutcomes ==
    pc = "resolved" =>
        /\ Range(result.candidates) = Found
        /\ Len(result.candidates) = Cardinality(Found)
        /\ Found = {} <=> (result.path = NoPath /\ result.reason = "no_match")
        /\ Cardinality(Found) = 1 <=> (result.path \in Found /\ result.reason = "none")
        /\ Cardinality(Found) > 1 <=> (result.path \in Found /\ result.reason = "ambiguous")
        /\ result.path = NoPath <=> result.reason = "no_match"
        /\ (SurnameKey = <<>> \/ query.year = 0) => result.reason = "no_match"
C10_Witness ==
    /\ pc = "resolved"
    /\ Indexed(SurnameKey, query.year) = {}
    /\ Cardinality(Found) > 1
    /\ result.reason = "ambiguous"
    /\ result.path \in Found

\* the semicolon-separated segments of citation_text, as <<first, last>>
\* positions, and the first of them that holds the requested year
Segments ==
    LET t == query.citation_text
    IN  {be \in (1..Len(t)) \X (1..Len(t)) :
            /\ be[1] <= be[2]
            /\ \A i \in be[1]..be[2] : t[i] # ";"
            /\ (be[1] = 1 \/ t[be[1] - 1] = ";")
            /\ (be[2] = Len(t) \/ t[be[2] + 1] = ";")}
YearAt(be) ==
    {p \in be[1]..(be[2] - YearLen + 1) :
        SubSeq(query.citation_text, p, p + YearLen - 1) = IntToStr(query.year)}
YearSegments == {be \in Segments : YearAt(be) # {}}
\* the key of the author span of that segment: what stands before the year
SegmentKey ==
    LET be == CHOOSE x \in YearSegments : \A z \in YearSegments : x[1] <= z[1]
        p == CHOOSE q \in YearAt(be) : \A r \in YearAt(be) : q <= r
    IN  normalize_lead_surname(
            DropTrailingCommas(StripStr(SubSeq(query.citation_text, be[1], p - 1))))

\* C25: when the lookup under the author's key and the year finds nothing and
\* citation_text is given, the candidates are the files indexed under the key
\* of the segment of citation_text that holds the year, and that year; a
\* returned file is one of them; with no such segment, or no file under its
\* key, the result is no path and no_match.
C25_FallbackOnSegmentKey ==
    (/\ pc = "resolved"
     /\ SurnameKey # <<>> /\ query.year # 0
     /\ Indexed(SurnameKey, query.year) = {}
     /\ query.citation_text # <<>>) =>
        IF YearSegments = {}
        THEN result.path = NoPath /\ result.reason = "no_match"
        ELSE /\ Range(result.candidates) = Indexed(SegmentKey, query.year)
             /\ result.path # NoPath => result.path \in Indexed(SegmentKey, query.year)
             /\ Indexed(SegmentKey, query.year) = {} =>
                   (result.path = NoPath /\ result.reason = "no_match")
\* the author W, not indexed, cited as "de W et al." in the second segment
C25_Witness ==
    /\ pc = "resolved"
    /\ SurnameKey # <<>> /\ Indexed(SurnameKey, query.year) = {}
    /\ Cardinality(Segments) = 2
    /\ YearSegments # {} /\ SegmentKey # SurnameKey
    /\ \A be \in YearSegments : be[1] > 1
    /\ result.path # NoPath
    /\ result.path \in Indexed(SegmentKey, query.year)
\* no segment holds the year, or no file is indexed under the segment's key
C25_WitnessNoMatch ==
    /\ pc = "resolved"
    /\ SurnameKey # <<>> /\ query.year # 0 /\ query.citation_text # <<>>
    /\ Indexed(SurnameKey, query.year) = {}
    /\ YearSegments = {}
    /\ pdf_dir # {}
    /\ result.reason = "no_match"

(***************************************************************************)
(* Claims on the enrichment, the page offsets and the retrieval.           *)
(***************************************************************************)
\* the sub-citations of the row whose author is the row's citation_author
OwnParts == {i \in DOMAIN cite.parts : cite.parts[i].who = cite.citation_author}

\* C11: when the citation_text has several sub-citations and exactly one is
\* by the citation_author, the year inferred for the row, and the year
\* resolve_pdf_path matches on, is the year of that sub-citation.
C11_YearOfOwnSubCitation ==
    (Len(cite.parts) >= 2 /\ Cardinality(OwnParts) = 1) =>
        LET own == cite.parts[CHOOSE i \in OwnParts : TRUE]
        IN  /\ year_pc \in {"inferred", "resolved"} => inferred = own.year
            /\ year_pc = "resolved" => want_year = own.year

\* the payloads written so far, and the evidence lists in them
Evidences == {out_lines[i].evidence : i \in DOMAIN out_lines}

\* C12: every evidence list written has at most TOPK items, and the scores of
\* its items do not rise from one item to the next.
C12_TopKDescending ==
    \A ev \in Evidences :
        /\ Len(ev) <= TOPK
        /\ \A i \in 1..(Len(ev) - 1) : ev[i].score >= ev[i + 1].score
C12_Witness ==
    \E i \in DOMAIN out_lines :
       LET ev == out_lines[i].evidence
           row == registry.rows[CHOOSE r \in DOMAIN registry.rows :
                                   registry.rows[r].claim_id = out_lines[i].claim_id]
       IN  /\ Len(ev) = TOPK
           /\ \A k \in DOMAIN ev : ev[k].via = "quote"
           /\ OffsetsGet(offsets, row.source_pdf_path).found
           /\ StatedNumber(row.stated_page)
                 - OffsetsGet(offsets, row.source_pdf_path).off = 2

\* C13: no window is twice in an evidence list written.
C13_NoDuplicateWindow ==
    \A ev \in Evidences :
        \A i, j \in DOMAIN ev : ev[i].idx = ev[j].idx => i = j

\* the registry row of a payload
RowOf(line) ==
    registry.rows[CHOOSE r \in DOMAIN registry.rows :
                     registry.rows[r].claim_id = line.claim_id]
\* the sources with a row in the offsets file
OffsetSources ==
    IF offsets_file.exists
    THEN {offsets_file.rows[i].source_pdf_path : i \in DOMAIN offsets_file.rows}
    ELSE {}

\* C14: the evidence of a claim whose source has no row in the offsets file
\* has no item added for the offset-mapped page.
C14_NoOffsetNoShift ==
    \A i \in DOMAIN out_lines :
        out_lines[i].source_pdf_path \notin OffsetSources =>
            \A k \in DOMAIN out_lines[i].evidence : out_lines[i].evidence[k].via # "offset"
C14_Witness ==
    \E i \in DOMAIN out_lines :
       /\ out_lines[i].source_pdf_path \notin OffsetSources
       /\ StatedNumber(RowOf(out_lines[i]).stated_page) \in DOMAIN APages
       /\ ~as_bool(RowOf(out_lines[i]).is_quote)
       /\ Len(out_lines[i].evidence) = TOPK
       /\ \A k \in DOMAIN out_lines[i].evidence : out_lines[i].evidence[k].via = "fuzzy"

\* the pages of a payload's source that carry an explicit signal: the pages
\* where a quoted span of an is_quote claim is found, and the page the stated
\* page is mapped to by the source's offset, when the text has that page
QuotePages(line) ==
    IF as_bool(RowOf(line).is_quote)
    THEN {p \in DOMAIN text_dir[line.source_pdf_path].pages :
             \E q \in RowOf(line).quoted :
                 Contains(text_dir[line.source_pdf_path].pages[p], q)}
    ELSE {}
OffsetPages(line) ==
    IF /\ line.source_pdf_path \in OffsetSources
       /\ StatedNumber(RowOf(line).stated_page) # -1
    THEN {StatedNumber(RowOf(line).stated_page) - offsets[line.source_pdf_path]}
            \cap DOMAIN text_dir[line.source_pdf_path].pages
    ELSE {}

\* C24: the evidence of a claim has, for every page where its quote is found
\* and for the page its stated page is mapped to by the offset, a window of
\* that page with score 100 added as an anchor, and every anchor comes before
\* every item of the fuzzy search.
C24_AnchorsPresentAndFirst ==
    \A i \in DOMAIN out_lines :
       LET ev == out_lines[i].evidence
       IN  /\ \A p \in QuotePages(out_lines[i]) \cup OffsetPages(out_lines[i]) :
                \E k \in DOMAIN ev :
                    /\ ev[k].page_range = <<p, p>>
                    /\ ev[k].score = 100
                    /\ ev[k].via # "fuzzy"
           /\ \A k, j \in DOMAIN ev :
                (ev[k].via # "fuzzy" /\ ev[j].via = "fuzzy") => k < j

\* the rows gone through whose source is named and has no text file
NoTextFileRows ==
    {i \in 1..row_no :
        /\ registry.rows[i].source_pdf_path # ""
        /\ registry.rows[i].source_pdf_path \notin DOMAIN text_dir}
PayloadsOf(i) == {j \in DOMAIN out_lines : out_lines[j].claim_id = registry.rows[i].claim_id}

\* C20: a row whose source has no text file gets no evidence item and the
\* run goes on: every later row with a text gets its payload, and the run
\* ends after the last row.
C20_MissingTextSkipped ==
    retr_pc \in {"loop", "done"} =>
        /\ \A i \in NoTextFileRows : PayloadsOf(i) = {}
        /\ \A i \in 1..row_no :
              (registry.rows[i].source_pdf_path \in DOMAIN text_dir
               /\ text_dir[registry.rows[i].source_pdf_path].nonempty)
              => Cardinality(PayloadsOf(i)) = 1
        /\ retr_pc = "done" => row_no = Len(registry.rows)
C20_Witness ==
    /\ retr_pc = "done"
    /\ \E i \in NoTextFileRows : \E j \in (i + 1)..row_no :
          /\ PayloadsOf(i) = {}
          /\ PayloadsOf(j) # {}
          /\ \E l \in PayloadsOf(j) : out_lines[l].evidence # <<>>

\* the windows of page p, in order
WindowsOf(p) == SelectSeq(chunks, LAMBDA ch : ch.page_start = p)
\* t is words[i : i + n] for some i and n
IsSliceOf(t, words) ==
    \E i \in 0..Len(words) : \E n \in 0..Len(words) :
        i + n <= Len(words) /\ t = SubSeq(words, i + 1, i + n)

\* C16: in per-page chunking a page with at least one and fewer than
\* chunk_words tokens gives exactly one window, whose text is the page's
\* tokens in order.
C16_ShortPageOneWindow ==
    (chunk_pc = "chunked" /\ ~chunk_cfg.cross_page) =>
        \A p \in DOMAIN pages :
            (Len(pages[p]) >= 1 /\ Len(pages[p]) < chunk_cfg.chunk_words) =>
                /\ Len(WindowsOf(p)) = 1
                /\ WindowsOf(p)[1].text = pages[p]
                /\ WindowsOf(p)[1].page_end = p
C16_Witness ==
    /\ chunk_pc = "chunked" /\ ~chunk_cfg.cross_page
    /\ chunk_cfg.stride > 1
    /\ \E p \in DOMAIN pages :
          /\ Len(pages[p]) = 2 /\ chunk_cfg.chunk_words = 3
          /\ pages[p][1] # pages[p][2]
          /\ Len(WindowsOf(p)) = 1
          /\ WindowsOf(p)[1].text = pages[p]

\* C17: in per-page chunking, for every chunk_words >= 1 and stride >= 1,
\* every window has page_start = page_end and its text is a run of that
\* page's tokens, and every page with a token gives at least one window.
C17_WindowsWithinPage ==
    (chunk_pc = "chunked" /\ ~chunk_cfg.cross_page) =>
        /\ \A k \in DOMAIN chunks :
              /\ chunks[k].page_start = chunks[k].page_end
              /\ chunks[k].page_start \in DOMAIN pages
              /\ IsSliceOf(chunks[k].text, pages[chunks[k].page_start])
        /\ \A p \in DOMAIN pages : pages[p] # <<>> => Len(WindowsOf(p)) >= 1
C17_Witness ==
    /\ chunk_pc = "chunked" /\ ~chunk_cfg.cross_page
    /\ DOMAIN pages = PageNumbers
    /\ \A p \in DOMAIN pages : Len(pages[p]) = MaxPageWords
    /\ chunk_cfg.chunk_words = 2 /\ chunk_cfg.stride = 1
    /\ Len(chunks) = 2 * (MaxPageWords - 1)
    /\ \A k \in DOMAIN chunks : chunks[k].page_start = chunks[k].page_end

\* the positions of a page's tokens that lie in a window of the page: pos is
\* one when some window's text is the page's tokens from i + 1 on, pos among
\* them
CoveredPositions(p) ==
    {pos \in DOMAIN pages[p] :
        \E k \in DOMAIN WindowsOf(p) :
            \E i \in 0..(pos - 1) :
                LET t == WindowsOf(p)[k].text
                IN  /\ pos <= i + Len(t)
                    /\ i + Len(t) <= Len(pages[p])
                    /\ t = SubSeq(pages[p], i + 1, i + Len(t))}

\* C29: in per-page chunking with stride <= chunk_words every token of a
\* page lies in at least one window of the page.
C29_EveryTokenInAWindow ==
    (chunk_pc = "chunked" /\ ~chunk_cfg.cross_page
        /\ chunk_cfg.stride <= chunk_cfg.chunk_words) =>
        \A p \in DOMAIN pages : CoveredPositions(p) = DOMAIN pages[p]

\* the instance offsets of a source in the registry of the last run
InstanceOffsets(src) ==
    IF src \in DOMAIN OffsetTexts
    THEN offsets_for_pdf(OffsetTexts[src].pages, Group(KeptRows(reg_df.rows), src))
    ELSE <<>>
\* m is the integer median of the non-empty seq: the middle element of the
\* sorted values, or the floor of the mean of the two middle ones
IsIntegerMedian(m, seq) ==
    LET n == Len(seq)
        AtMost(v) == Cardinality({i \in DOMAIN seq : seq[i] <= v})
        AtLeast(v) == Cardinality({i \in DOMAIN seq : seq[i] >= v})
    IN  IF n % 2 = 1
        THEN \E i \in DOMAIN seq :
                seq[i] = m /\ 2 * AtMost(m) >= n + 1 /\ 2 * AtLeast(m) >= n + 1
        ELSE \E i, j \in DOMAIN seq :
                /\ seq[i] <= seq[j]
                /\ 2 * AtMost(seq[i]) >= n /\ 2 * AtLeast(seq[i]) >= n + 2
                /\ 2 * AtLeast(seq[j]) >= n /\ 2 * AtMost(seq[j]) >= n + 2
                /\ 2 * m <= seq[i] + seq[j] /\ seq[i] + seq[j] < 2 * m + 2
RowsOf(file, src) == {i \in DOMAIN file.rows : file.rows[i].source_pdf_path = src}

\* C15: the rows a run writes to the offset table are one for each source
\* with instances, carrying the integer median of the source's instance
\* offsets (the middle element, or the floor of the mean of the two middle
\* ones), and none for a source without instances.
C15_MedianOrNoRow ==
    (offs_pc = "done" /\ reg_df.exists) =>
        /\ rows_out # <<>> => page_offsets = [exists |-> TRUE, rows |-> rows_out]
        /\ \A src \in Range(OffsetSources30) :
              IF InstanceOffsets(src) = <<>>
              THEN \A i \in DOMAIN rows_out : rows_out[i].source_pdf_path # src
              ELSE \E i \in DOMAIN rows_out :
                      /\ rows_out[i].source_pdf_path = src
                      /\ IsIntegerMedian(rows_out[i].logical_minus_pdf_offset,
                                         InstanceOffsets(src))
                      /\ \A j \in DOMAIN rows_out :
                            rows_out[j].source_pdf_path = src => j = i
\* two instances of a.pdf with a negative odd sum, and a row of b.pdf, which
\* has no text and so no instance
C15_Witness ==
    /\ offs_pc = "done" /\ reg_df.exists
    /\ Len(InstanceOffsets("a.pdf")) = 2
    /\ \E i \in DOMAIN rows_out :
          /\ rows_out[i].source_pdf_path = "a.pdf"
          /\ rows_out[i].logical_minus_pdf_offset = -1
          /\ page_offsets.rows[i] = rows_out[i]
    /\ \E i \in DOMAIN reg_df.rows : reg_df.rows[i].source_pdf_path = "b.pdf"
    /\ RowsOf(page_offsets, "b.pdf") = {}

\* C28: after a run the offset table has a row for a source only if the
\* run found an instance for it.
C28_NoStaleOffsets ==
    (offs_pc = "done" /\ reg_df.exists) =>
        \A src \in Range(OffsetSources30) :
            RowsOf(page_offsets, src) # {} => InstanceOffsets(src) # <<>>

\* the score of section k: similarity x heading penalty x level boost
ScoreOf(k) ==
    body_sim[sections[k].body]
        * (IF HeadingPenaltyMatch(sections[k].title) THEN 60 ELSE 100)
        * level_boost(sections[k].level)

\* C18: the section chosen has the highest score and a higher score than
\* every section before it; of two sections with the same body and level
\* and a positive similarity, one under a generic heading and one not, the
\* one under the generic heading is not chosen, whichever comes first.
C18_GenericNeverPreferred ==
    (sect_pc = "returned" /\ sections # <<>>) =>
        /\ best_sec.idx \in DOMAIN sections
        /\ \A k \in DOMAIN sections : ScoreOf(k) <= ScoreOf(best_sec.idx)
        /\ (\E k \in DOMAIN sections : ScoreOf(k) > 0) =>
              \A k \in 1..(best_sec.idx - 1) : ScoreOf(k) < ScoreOf(best_sec.idx)
        /\ \A g, n \in DOMAIN sections :
              (/\ HeadingPenaltyMatch(sections[g].title)
               /\ ~HeadingPenaltyMatch(sections[n].title)
               /\ sections[g].body = sections[n].body
               /\ sections[g].level = sections[n].level
               /\ body_sim[sections[g].body] > 0)
              => best_sec.idx # g
C18_Witness ==
    /\ sect_pc = "returned"
    /\ Len(sections) = 2
    /\ sections[1].title = <<"executive", "summary">>
    /\ sections[2].title = <<"methods">>
    /\ sections[1].body = sections[2].body
    /\ sections[1].level = sections[2].level
    /\ body_sim[sections[1].body] = MaxSim
    /\ best_sec.title = <<"methods">>

\* the claim tokens in the title of section k, and that number weighted by
\* the heading penalty and the level boost (in ten-thousandths)
SharedWithTitle(k) == {t \in claim_toks : \E i \in DOMAIN sections[k].title :
                                             sections[k].title[i] = t}
WeightedOverlap(k) ==
    Cardinality(SharedWithTitle(k))
        * (IF HeadingPenaltyMatch(sections[k].title) THEN 60 ELSE 100)
        * (CASE sections[k].level = 3 -> 110 [] sections[k].level = 2 -> 100)
NoBodySimilar == \A k \in DOMAIN sections : body_sim[sections[k].body] = 0

\* C26: when no section body is similar to the claim, the section returned
\* has the highest weighted title overlap and is the earliest such section;
\* it shares a title token with the claim if any section does; and the
\* result is "unknown" only if no section shares a title token.
C26_TitleFallback ==
    (sect_pc = "returned" /\ NoBodySimilar) =>
        /\ sections # <<>> =>
              /\ best_sec.idx \in DOMAIN sections
              /\ best_sec.title = sections[best_sec.idx].title
              /\ \A k \in DOMAIN sections :
                    WeightedOverlap(k) <= WeightedOverlap(best_sec.idx)
              /\ \A k \in 1..(best_sec.idx - 1) :
                    WeightedOverlap(k) < WeightedOverlap(best_sec.idx)
              /\ (\E k \in DOMAIN sections : SharedWithTitle(k) # {}) =>
                    SharedWithTitle(best_sec.idx) # {}
        /\ best_sec = NoBest => \A k \in DOMAIN sections : SharedWithTitle(k) = {}
\* the claim shares a token with both titles, the first title is generic
C26_Witness ==
    /\ sect_pc = "returned" /\ NoBodySimilar
    /\ Len(sections) = 2
    /\ sections[1].title = <<"overview">>
    /\ sections[2].title = <<"methods">>
    /\ sections[1].level = sections[2].level
    /\ claim_toks = {"overview", "methods"}
    /\ best_sec.title = <<"methods">>

C19_FatalReached == status = "fatal" /\ enriched = Absent /\ ledger = Absent

(***************************************************************************)
(* Claims on the citation parser (SpecCite).                               *)
(***************************************************************************)
SegmentsOfKind(kind) == {k \in DOMAIN sentence : sentence[k].kind = kind}
\* the items reported for the match at segment k
ItemsAt(k) == {i \in DOMAIN citations : citations[i].span = k}

\* C21: no two items returned share author, year, citation_type and span; a
\* sentence with one narrative citation and one parenthetical citation gives
\* exactly two items, a narrative one and a parenthetical one with the
\* authors and years written; a sentence without a citation form gives the
\* empty list.
C21_EachCitationOnce ==
    cite_pc = "parsed" =>
        /\ \A i, j \in DOMAIN citations :
              CitationKey(citations[i]) = CitationKey(citations[j]) => i = j
        /\ \A n \in SegmentsOfKind("narr"), p \in SegmentsOfKind("paren") :
              (/\ SegmentsOfKind("narr") = {n} /\ SegmentsOfKind("paren") = {p}
               /\ SegmentsOfKind("ascited") = {}
               /\ Len(sentence[p].pairs) = 1 /\ sentence[p].host = NoHost) =>
                 /\ Len(citations) = 2
                 /\ \E i \in ItemsAt(n) :
                       /\ citations[i].citation_type = "narrative"
                       /\ Pair(citations[i].author, citations[i].year) = sentence[n].pairs[1]
                 /\ \E i \in ItemsAt(p) :
                       /\ citations[i].citation_type = "parenthetical"
                       /\ Pair(citations[i].author, citations[i].year) = sentence[p].pairs[1]
        /\ (\A k \in DOMAIN sentence : sentence[k].kind = "text") => citations = <<>>
\* the sentence of the test: a narrative citation, words, a parenthetical one
C21_Witness ==
    /\ cite_pc = "parsed"
    /\ sentence = <<NarrSeg(Smith2020), TextSeg, ParenSeg(<<Brown2019>>, NoHost)>>
    /\ Len(citations) = 2
    /\ citations[1].citation_type = "parenthetical" /\ citations[1].author = "Brown"
    /\ citations[2].citation_type = "narrative" /\ citations[2].author = "Smith"

\* C22: a parenthetical block with one pair followed by "as cited in" a host
\* gives exactly one item, of type secondary_parenthetical, with the host's
\* author and year and the pair as primary_mentioned_author and
\* primary_mentioned_year.
C22_SecondaryParenthetical ==
    cite_pc = "parsed" =>
        \A k \in SegmentsOfKind("paren") :
            (sentence[k].host # NoHost /\ Len(sentence[k].pairs) = 1) =>
                /\ Cardinality(ItemsAt(k)) = 1
                /\ \A i \in ItemsAt(k) :
                      /\ citations[i].citation_type = "secondary_parenthetical"
                      /\ Pair(citations[i].author, citations[i].year) = sentence[k].host
                      /\ Pair(citations[i].primary_mentioned_author,
                              citations[i].primary_mentioned_year) = sentence[k].pairs[1]

\* C27: in a sentence with several narrative citations and one "as cited in"
\* clause after them, the narrative citation nearest before the clause is
\* secondary_narrative with the host's author and year, and every earlier one
\* is narrative with its own author and year.
C27_NearestNarrativeOnly ==
    cite_pc = "parsed" =>
        \A c \in SegmentsOfKind("ascited") :
            (/\ SegmentsOfKind("ascited") = {c}
             /\ \A k \in SegmentsOfKind("paren") : sentence[k].host = NoHost
             /\ Cardinality(SegmentsOfKind("narr")) >= 2
             /\ \A n \in SegmentsOfKind("narr") : n < c) =>
                \A n \in SegmentsOfKind("narr") : \A i \in ItemsAt(n) :
                    IF \A m \in SegmentsOfKind("narr") : m <= n
                    THEN /\ citations[i].citation_type = "secondary_narrative"
                         /\ Pair(citations[i].author, citations[i].year) = sentence[c].host
                    ELSE /\ citations[i].citation_type = "narrative"
                         /\ Pair(citations[i].author, citations[i].year) = sentence[n].pairs[1]

(***************************************************************************)
(* Claims on the page markers (SpecSplit).                                 *)
(***************************************************************************)
\* C23: splitting the text written for a PDF's pages gives back the pages:
\* the same page numbers, and for each page the text written under its
\* marker.
C23_SplitInvertsMarking ==
    split_pc = "split" =>
        /\ ~split_out.raised
        /\ DOMAIN split_out.pages = DOMAIN page_texts
        /\ \A n \in DOMAIN page_texts : split_out.pages[n] = StripWhite(page_texts[n])

(***************************************************************************)
(* Claims on the tie-break (SpecTie).                                      *)
(***************************************************************************)
\* the positions in a listing of two files of the directory
PositionIn(l, f) == CHOOSE i \in DOMAIN l : l[i] = f
SameOrderIn(l, m, f, g) ==
    (PositionIn(l, f) < PositionIn(l, g)) <=> (PositionIn(m, f) < PositionIn(m, g))

\* C30: for every (surname key, year) with several files, the file chosen
\* when the directory is listed again in another order is the file chosen on
\* the first listing.
C30_ChoiceIndependentOfOrder ==
    tie_pc = "rechosen" => tie_last = tie_first.chosen
\* two files that differ in letter case only, and two that differ in the
\* separator only, listed first in one order and then in the other
C30_Witness ==
    /\ tie_pc = "rechosen"
    /\ \E f, g \in Range(glob_order) :
          /\ f # g /\ LowerStr(f) = LowerStr(g)
          /\ ~SameOrderIn(tie_first.listing, glob_order, f, g)
          /\ tie_last[FileKey(f)] \in {f, g}
C30_WitnessSeparator ==
    /\ tie_pc = "rechosen"
    /\ \E f, g \in Range(glob_order) :
          /\ f # g /\ LowerStr(f) # LowerStr(g) /\ Len(f) = Len(g)
          /\ FileKey(f) = FileKey(g)
          /\ Cardinality(Range(glob_order)) = 2
          /\ ~SameOrderIn(tie_first.listing, glob_order, f, g)
          /\ tie_last[FileKey(f)] \in {f, g}

====
